---- MODULE Spec2Model ----
(* Device discovery, credential probing and registry refresh of the        *)
(* Konica Minolta printer middleware                                        *)
(* (src/konika_middleware/core/discovery.py, core/device_manager.py,        *)
(* devices/fiery_client.py, models/device.py).                              *)
EXTENDS Integers, Sequences, FiniteSets, TLC

(***************************************************************************)
(* Python values.  Strings are TLA+ strings; None is a value distinct from *)
(* every text the program handles, the empty string included.              *)
(***************************************************************************)
None == "<None>"

\* Python truthiness of an Optional[str]: None and "" are both falsy.
Truthy(x) == x # None /\ x # ""

Min(a, b) == IF a < b THEN a ELSE b

LowerChars == "abcdefghijklmnopqrstuvwxyz"
UpperChars == "ABCDEFGHIJKLMNOPQRSTUVWXYZ"
DigitChars == "0123456789"

\* s[i:i+1]: the character at position i, "" outside the string
CharAt(s, i) == IF i \in 1..Len(s) THEN SubSeq(s, i, i) ELSE ""

\* sub in s
Contains(sub, s) ==
    \E i \in 1..(Len(s) - Len(sub) + 1) : SubSeq(s, i, i + Len(sub) - 1) = sub

\* s.startswith(p)
StartsWith(s, p) == Len(p) <= Len(s) /\ SubSeq(s, 1, Len(p)) = p

IndexIn(alphabet, c) ==
    IF Contains(c, alphabet)
    THEN CHOOSE i \in 1..Len(alphabet) : CharAt(alphabet, i) = c
    ELSE 0

UpperChar(c) ==
    IF IndexIn(LowerChars, c) > 0 THEN CharAt(UpperChars, IndexIn(LowerChars, c)) ELSE c

LowerChar(c) ==
    IF IndexIn(UpperChars, c) > 0 THEN CharAt(LowerChars, IndexIn(UpperChars, c)) ELSE c

RECURSIVE Upper(_)
\* str.upper()
Upper(s) == IF s = "" THEN "" ELSE UpperChar(CharAt(s, 1)) \o Upper(SubSeq(s, 2, Len(s)))

RECURSIVE Lower(_)
\* str.lower()
Lower(s) == IF s = "" THEN "" ELSE LowerChar(CharAt(s, 1)) \o Lower(SubSeq(s, 2, Len(s)))

RECURSIVE Replace(_, _, _)
\* str.replace(a, b) for a one-character a
Replace(s, a, b) ==
    IF s = "" THEN ""
    ELSE (IF CharAt(s, 1) = a THEN b ELSE CharAt(s, 1)) \o Replace(SubSeq(s, 2, Len(s)), a, b)

RECURSIVE Strip(_)
\* str.strip() for blanks
Strip(s) ==
    IF s = "" THEN ""
    ELSE IF CharAt(s, 1) = " " THEN Strip(SubSeq(s, 2, Len(s)))
    ELSE IF CharAt(s, Len(s)) = " " THEN Strip(SubSeq(s, 1, Len(s) - 1))
    ELSE s

IsDigit(c) == Len(c) = 1 /\ Contains(c, DigitChars)
IsAlpha(c) == Len(c) = 1 /\ (Contains(c, LowerChars) \/ Contains(c, UpperChars))
IsSpace(c) == c = " "

(***************************************************************************)
(* re.search(pattern, text, re.IGNORECASE) for the patterns of             *)
(* _extract_model.  A pattern is a sequence of elements <<kind, arg>>:     *)
(*   <<"lit", t>>   the literal text t (case-insensitive)                  *)
(*   <<"plus", c>>  one or more characters of class c                      *)
(*   <<"star", c>>  zero or more characters of class c                     *)
(*   <<"opt", c>>   zero or one character of class c                       *)
(*   <<"open", "">> / <<"close", "">>  the bounds of group 1               *)
(* The classes of consecutive elements are disjoint in every pattern used, *)
(* so greedy matching needs no backtracking.                               *)
(***************************************************************************)
InClass(c, cls) ==
    CASE cls = "space" -> IsSpace(c)
      [] cls = "digit" -> IsDigit(c)
      [] cls = "alpha" -> IsAlpha(c)
      [] cls = "C"     -> UpperChar(c) = "C"
      [] cls = "colonspace" -> c = ":" \/ IsSpace(c)
      [] cls = "digitdot"   -> IsDigit(c) \/ c = "."
      [] OTHER         -> FALSE

RECURSIVE RunLen(_, _, _)
\* number of consecutive characters of class cls in s from position pos
RunLen(s, pos, cls) ==
    IF pos <= Len(s) /\ InClass(CharAt(s, pos), cls) THEN 1 + RunLen(s, pos + 1, cls) ELSE 0

NoMatch == [ok |-> FALSE, group |-> ""]

RECURSIVE RxRun(_, _, _, _, _, _)
\* match pat[j..] against s at pos; capFrom is where group 1 opened
RxRun(s, pos, pat, j, capFrom, group) ==
    IF j > Len(pat) THEN [ok |-> TRUE, group |-> group]
    ELSE LET kind == pat[j][1]
             arg  == pat[j][2]
         IN CASE kind = "lit" ->
                   IF pos + Len(arg) - 1 <= Len(s)
                      /\ Upper(SubSeq(s, pos, pos + Len(arg) - 1)) = Upper(arg)
                   THEN RxRun(s, pos + Len(arg), pat, j + 1, capFrom, group)
                   ELSE NoMatch
              [] kind = "plus" ->
                   IF RunLen(s, pos, arg) >= 1
                   THEN RxRun(s, pos + RunLen(s, pos, arg), pat, j + 1, capFrom, group)
                   ELSE NoMatch
              [] kind = "star" ->
                   RxRun(s, pos + RunLen(s, pos, arg), pat, j + 1, capFrom, group)
              [] kind = "opt" ->
                   RxRun(s, pos + Min(1, RunLen(s, pos, arg)), pat, j + 1, capFrom, group)
              [] kind = "open" ->
                   RxRun(s, pos, pat, j + 1, pos, group)
              [] kind = "close" ->
                   RxRun(s, pos, pat, j + 1, capFrom, SubSeq(s, capFrom, pos - 1))
              [] OTHER -> NoMatch

RECURSIVE SearchFrom(_, _, _)
\* the leftmost match of pat in s that starts at position i or later
SearchFrom(pat, s, i) ==
    LET tried(m) == IF m.ok THEN m ELSE SearchFrom(pat, s, i + 1)
    IN IF i > Len(s) + 1 THEN NoMatch ELSE tried(RxRun(s, i, pat, 1, 0, ""))

\* re.search: the match at the leftmost position where the pattern matches
ReSearch(pat, s) == SearchFrom(pat, s, 1)

(***************************************************************************)
(* Python dicts are functions on string keys; d.get(k, default).           *)
(***************************************************************************)
EmptyDict == <<>>

Get(d, k, default) == IF k \in DOMAIN d THEN d[k] ELSE default

\* bool(d) of a dict or of None (None is modelled as the empty dict where
\* the code only tests truthiness)
DictTruthy(d) == DOMAIN d # {}

(***************************************************************************)
(* NetworkDiscovery class tables (discovery.py:24-52)                      *)
(***************************************************************************)
DEFAULT_PASSWORDS == <<"12345678", "1234567812345678", "admin", "">>

\* COMMON_PASSWORDS["by_model"] in dict (insertion) order
BY_MODEL == << <<"2100", <<"12345678">> >>,
               <<"754e", <<"12345678">> >>,
               <<"C654", <<"1234567812345678">> >>,
               <<"C759", <<"1234567812345678">> >> >>

KM_IDENTIFIERS == <<"KONICA MINOLTA", "bizhub", "magicolor", "pagepro",
                    "Fiery", "EFI", "Fiery ES", "Fiery E100", "IC-418", "60-55C-KM">>

\* DeviceType (models/device.py:9-14); use_enum_values stores the value
DeviceType == {"C654e", "C759", "C754e", "2100"}

\* text contains one of KM_IDENTIFIERS, case-insensitively
HasIdentifier(text) ==
    \E k \in 1..Len(KM_IDENTIFIERS) : Contains(Upper(KM_IDENTIFIERS[k]), Upper(text))

\* NetworkDiscovery._is_konica_minolta
IsKonicaMinolta(info) ==
    IF ~DictTruthy(info) THEN FALSE
    ELSE HasIdentifier(Get(info, "description", ""))
         \/ HasIdentifier(Get(info, "content_snippet", ""))

\* model_patterns of _extract_model, in list order
MODEL_PATTERNS ==
    << << <<"lit", "bizhub">>, <<"plus", "space">>, <<"open", "">>, <<"opt", "C">>,
          <<"plus", "digit">>, <<"star", "alpha">>, <<"close", "">> >>,
       << <<"lit", "magicolor">>, <<"plus", "space">>, <<"open", "">>,
          <<"plus", "digit">>, <<"close", "">> >>,
       << <<"lit", "pagepro">>, <<"plus", "space">>, <<"open", "">>,
          <<"plus", "digit">>, <<"close", "">> >>,
       << <<"lit", "AccurioPrint">>, <<"plus", "space">>, <<"open", "">>,
          <<"plus", "digit">>, <<"close", "">> >>,
       << <<"lit", "KONICA MINOLTA">>, <<"plus", "space">>, <<"lit", "AccurioPrint">>,
          <<"plus", "space">>, <<"open", "">>, <<"plus", "digit">>, <<"close", "">> >>,
       << <<"lit", "KONICA MINOLTA">>, <<"plus", "space">>, <<"lit", "bizhub">>,
          <<"plus", "space">>, <<"open", "">>, <<"opt", "C">>,
          <<"plus", "digit">>, <<"star", "alpha">>, <<"close", "">> >>,
       << <<"lit", "KONICA MINOLTA">>, <<"plus", "space">>, <<"open", "">>, <<"opt", "C">>,
          <<"plus", "digit">>, <<"star", "alpha">>, <<"close", "">> >>,
       << <<"lit", "Fiery ES IC-">>, <<"open", "">>, <<"plus", "digit">>, <<"close", "">> >>,
       << <<"lit", "Fiery E">>, <<"open", "">>, <<"plus", "digit">>, <<"close", "">>,
          <<"plus", "space">>, <<"lit", "60-55C-KM">> >>,
       << <<"lit", "Fiery">>, <<"plus", "space">>, <<"open", "">>,
          <<"plus", "alpha">>, <<"plus", "digit">>, <<"close", "">> >> >>

\* pattern.startswith(r'Fiery')
IsFieryPattern(pat) == pat[1][1] = "lit" /\ StartsWith(pat[1][2], "Fiery")

\* the body of the loop of _extract_model once pattern number k has matched
ModelOfMatch(description, k, group) ==
    IF Contains("IC-418", description) THEN "C759"
    ELSE IF Contains("E100", description) /\ Contains("60-55C-KM", description) THEN "C754e"
    ELSE IF IsFieryPattern(MODEL_PATTERNS[k])
         THEN (IF Contains("418", group) THEN "C759"
               ELSE IF Contains("100", group) THEN "C754e"
               ELSE "Fiery-" \o group)
    ELSE group

RECURSIVE ExtractFrom(_, _)
\* the loop of _extract_model over model_patterns from pattern number k on
ExtractFrom(description, k) ==
    LET searched(match) == IF match.ok THEN ModelOfMatch(description, k, match.group)
                           ELSE ExtractFrom(description, k + 1)
    IN IF k > Len(MODEL_PATTERNS) THEN None
       ELSE searched(ReSearch(MODEL_PATTERNS[k], description))

\* NetworkDiscovery._extract_model
ExtractModel(info) == ExtractFrom(Get(info, "description", ""), 1)

\* _determine_device_type with the rule of the 2100 tried first
DetermineDeviceTypeReordered(model) ==
    IF ~Truthy(model) THEN None
    ELSE LET model_upper == Upper(model)
         IN IF Contains("2100", model_upper) THEN "2100"
            ELSE IF Contains("C654E", model_upper) THEN "C654e"
            ELSE IF Contains("C759", model_upper) THEN "C759"
            ELSE IF Contains("C754E", model_upper) THEN "C754e"
            ELSE IF StartsWith(model_upper, "C")
                    /\ \E t \in {"654", "754", "759"} : Contains(t, model_upper)
                 THEN "C654e"
            ELSE None

\* NetworkDiscovery._determine_device_type
DetermineDeviceType(model) ==
    IF ~Truthy(model) THEN None
    ELSE LET model_upper == Upper(model)
         IN IF Contains("C654E", model_upper) THEN "C654e"
            ELSE IF Contains("C759", model_upper) THEN "C759"
            ELSE IF Contains("C754E", model_upper) THEN "C754e"
            ELSE IF Contains("2100", model_upper) THEN "2100"
            ELSE IF StartsWith(model_upper, "C")
                    /\ \E t \in {"654", "754", "759"} : Contains(t, model_upper)
                 THEN "C654e"
            ELSE IF Contains("2100", model_upper) THEN "2100"
            ELSE None

\* NetworkDiscovery._determine_fiery_device_type; the result "raise" stands
\* for the AttributeError of None.upper() when the key model holds None
DetermineFieryDeviceType(fiery_info) ==
    IF Get(fiery_info, "model", "") = None THEN "raise"
    ELSE LET model == Upper(Get(fiery_info, "model", ""))
         IN IF Contains("C759", model) THEN "C759"
            ELSE IF Contains("C754", model) THEN "C754e"
            ELSE IF Contains("C654", model) THEN "C654e"
            ELSE "C759"

RECURSIVE Dedup(_)
\* list(dict.fromkeys(xs)): duplicates removed, first occurrence kept
Dedup(xs) ==
    IF xs = <<>> THEN <<>>
    ELSE LET front == Dedup(SubSeq(xs, 1, Len(xs) - 1))
             last  == xs[Len(xs)]
         IN IF \E i \in 1..Len(front) : front[i] = last THEN front ELSE Append(front, last)

RECURSIVE ModelPasswords(_, _)
\* the by_model loop of _discover_admin_password over BY_MODEL[k..]
ModelPasswords(model, k) ==
    IF k > Len(BY_MODEL) THEN <<>>
    ELSE (IF Contains(Upper(BY_MODEL[k][1]), Upper(model)) THEN BY_MODEL[k][2] ELSE <<>>)
         \o ModelPasswords(model, k + 1)

\* the candidate list with the default passwords put first
PasswordsToTryDefaultsFirst(model) ==
    Dedup(DEFAULT_PASSWORDS \o (IF Truthy(model) THEN ModelPasswords(model, 1) ELSE <<>>))

\* passwords_to_try of _discover_admin_password (discovery.py:344-356)
PasswordsToTry(model) ==
    Dedup((IF Truthy(model) THEN ModelPasswords(model, 1) ELSE <<>>) \o DEFAULT_PASSWORDS)

(***************************************************************************)
(* What one address answers.  pages maps a URL path to the page served     *)
(* there, [status, content]; a path outside DOMAIN pages does not answer   *)
(* (connection refused, timeout).                                          *)
(***************************************************************************)
HasPage(pages, path, statuses) == path \in DOMAIN pages /\ pages[path].status \in statuses

HTTP_PATHS == <<"/", "/wcd/", "/wcd/index.html">>

SnippetLen == 500

\* NetworkDiscovery._http_discovery: the first path that answers 200/301/302,
\* or None (the empty dict)
HttpDiscovery(pages) ==
    LET ok == {k \in 1..Len(HTTP_PATHS) : HasPage(pages, HTTP_PATHS[k], {200, 301, 302})}
    IN IF ok = {} THEN EmptyDict
       ELSE LET k == CHOOSE k \in ok : \A h \in ok : k <= h
                content == pages[HTTP_PATHS[k]].content
            IN [http_response   |-> pages[HTTP_PATHS[k]].status,
                content_snippet |-> SubSeq(content, 1, Min(Len(content), SnippetLen))]

\* smallest index >= pos of s holding character c, 0 when there is none
FindFrom(s, pos, c) ==
    LET hits == {i \in pos..Len(s) : CharAt(s, i) = c}
    IN IF hits = {} THEN 0 ELSE CHOOSE i \in hits : \A k \in hits : i <= k

\* the text between two markers, None when a marker is missing or the text is empty
Between(s, open, close) ==
    LET starts == {i \in 1..(Len(s) - Len(open) + 1) : SubSeq(s, i, i + Len(open) - 1) = open}
    IN IF starts = {} THEN None
       ELSE LET from == (CHOOSE i \in starts : \A k \in starts : i <= k) + Len(open)
                ends == {j \in from..(Len(s) - Len(close) + 1) :
                           SubSeq(s, j, j + Len(close) - 1) = close}
            IN IF ends = {} THEN None
               ELSE LET to == CHOOSE j \in ends : \A k \in ends : j <= k
                    IN IF to = from THEN None ELSE SubSeq(s, from, to - 1)

\* the element name of a start tag "name attr=..."
TagName(tag) ==
    IF FindFrom(tag, 1, " ") = 0 THEN tag ELSE SubSeq(tag, 1, FindFrom(tag, 1, " ") - 1)

XmlError == [ok |-> FALSE, root |-> "", model |-> None]

RECURSIVE XmlRun(_, _, _, _, _, _)
\* xml.etree.ElementTree.fromstring on elements, attributes and text:
\* stack holds the open elements, root the start tag of the document
\* element ("" before it opens), closed whether it has been closed, model
\* the text of the first descendant <model> (root.find('.//model').text)
XmlRun(s, pos, stack, root, closed, model) ==
    IF pos > Len(s)
    THEN (IF stack = <<>> /\ closed THEN [ok |-> TRUE, root |-> root, model |-> model]
          ELSE XmlError)
    ELSE IF CharAt(s, pos) = "<"
    THEN LET e == FindFrom(s, pos, ">")
             tag == SubSeq(s, pos + 1, e - 1)
         IN IF e = 0 \/ tag = "" THEN XmlError
            ELSE IF StartsWith(tag, "?") THEN XmlRun(s, e + 1, stack, root, closed, model)
            ELSE IF StartsWith(tag, "/")
            THEN (IF stack # <<>> /\ stack[Len(stack)] = SubSeq(tag, 2, Len(tag))
                  THEN XmlRun(s, e + 1, SubSeq(stack, 1, Len(stack) - 1), root,
                              Len(stack) = 1, model)
                  ELSE XmlError)
            ELSE IF closed THEN XmlError
            ELSE IF CharAt(tag, Len(tag)) = "/"
            THEN XmlRun(s, e + 1, stack, IF stack = <<>> THEN tag ELSE root,
                        stack = <<>>, model)
            ELSE LET name == TagName(tag)
                     text == IF FindFrom(s, e + 1, "<") <= e + 1 THEN None
                             ELSE SubSeq(s, e + 1, FindFrom(s, e + 1, "<") - 1)
                     isModel == name = "model" /\ stack # <<>> /\ model = "<unset>"
                 IN XmlRun(s, e + 1, Append(stack, name),
                           IF stack = <<>> THEN tag ELSE root, closed,
                           IF isModel THEN text ELSE model)
    ELSE IF stack = <<>> /\ CharAt(s, pos) # " " THEN XmlError
    ELSE XmlRun(s, pos + 1, stack, root, closed, model)

\* ET.fromstring(content) with root.get('version') and root.find('.//model')
XmlParse(content) ==
    LET r == XmlRun(content, 1, <<>>, "", FALSE, "<unset>")
    IN IF ~r.ok THEN [ok |-> FALSE, version |-> None, model |-> None]
       ELSE [ok      |-> TRUE,
             version |-> Between(r.root \o " ", "version=\"", "\""),
             model   |-> IF r.model = "<unset>" THEN None ELSE r.model]

JsonError == [ok |-> FALSE, data |-> EmptyDict]

RECURSIVE JsonPairs(_, _, _)
\* the members "key": "value" of a JSON object from position pos on
JsonPairs(s, pos, data) ==
    LET k1 == pos
        k2 == FindFrom(s, k1 + 1, "\"")
        colon == k2 + 1
        v1 == IF CharAt(s, colon + 1) = " " THEN colon + 2 ELSE colon + 1
        v2 == FindFrom(s, v1 + 1, "\"")
        after == IF CharAt(s, v2 + 1) = " " THEN v2 + 2 ELSE v2 + 1
        next == IF CharAt(s, after + 1) = " " THEN after + 2 ELSE after + 1
        data2 == [k \in DOMAIN data \cup {SubSeq(s, k1 + 1, k2 - 1)} |->
                     IF k = SubSeq(s, k1 + 1, k2 - 1) THEN SubSeq(s, v1 + 1, v2 - 1)
                     ELSE data[k]]
    IN IF CharAt(s, k1) # "\"" \/ k2 = 0 \/ CharAt(s, colon) # ":"
          \/ CharAt(s, v1) # "\"" \/ v2 = 0
       THEN JsonError
       ELSE IF after = Len(s) /\ CharAt(s, after) = "}" THEN [ok |-> TRUE, data |-> data2]
       ELSE IF CharAt(s, after) = "," THEN JsonPairs(s, next, data2)
       ELSE JsonError

\* json.loads(content) for an object of string members
JsonParse(content) ==
    LET s == Strip(content)
    IN IF ~StartsWith(s, "{") THEN JsonError
       ELSE IF s = "{}" THEN [ok |-> TRUE, data |-> EmptyDict]
       ELSE JsonPairs(s, 2, EmptyDict)

(***************************************************************************)
(* FieryClient (devices/fiery_client.py)                                   *)
(***************************************************************************)
\* fiery_indicators of detect_fiery: <<endpoint, indicator>>
FIERY_INDICATORS == << <<"/", "Fiery">>, <<"/wsi/", "Fiery Web Services">>,
                       <<"/status", "EFI">>, <<"/info", "Fiery">>,
                       <<"/command", "Command">> >>

INFO_ENDPOINTS == <<"/wsi/deviceinfo", "/info", "/status", "/command/deviceinfo">>

INFO_KEYWORDS == {"fiery", "efi", "command workstation"}

\* r'version\s*[:\s]+([0-9\.]+)', written without the redundant \s*
VERSION_PATTERN == << <<"lit", "version">>, <<"plus", "colonspace">>, <<"open", "">>,
                      <<"plus", "digitdot">>, <<"close", "">> >>

RECURSIVE GetFieryInfo(_, _, _)
\* FieryClient._get_fiery_info from info endpoint number k on
GetFieryInfo(pages, result, k) ==
    IF k > Len(INFO_ENDPOINTS) THEN result
    ELSE IF ~HasPage(pages, INFO_ENDPOINTS[k], {200}) THEN GetFieryInfo(pages, result, k + 1)
    ELSE LET content == pages[INFO_ENDPOINTS[k]].content
             fromXml(root) ==
                 IF root.ok
                 THEN [result EXCEPT !.fiery_type = "XML_API",
                                     !.version = IF Truthy(root.version) THEN root.version
                                                 ELSE "Unknown",
                                     !.model = root.model]
                 ELSE GetFieryInfo(pages, result, k + 1)
             fromJson(parsed) ==
                 IF parsed.ok
                 THEN [result EXCEPT !.fiery_type = "JSON_API",
                                     !.version = Get(parsed.data, "version", "Unknown"),
                                     !.model = Get(parsed.data, "model", "Unknown")]
                 ELSE GetFieryInfo(pages, result, k + 1)
             fromText(version_match) ==
                 [result EXCEPT !.fiery_type = "Web_Interface",
                                !.version = IF version_match.ok THEN version_match.group
                                            ELSE None]
             dispatch(stripped) ==
                 IF StartsWith(stripped, "<") THEN fromXml(XmlParse(content))
                 ELSE IF StartsWith(stripped, "{") THEN fromJson(JsonParse(content))
                 ELSE IF \E kw \in INFO_KEYWORDS : Contains(kw, Lower(content))
                 THEN fromText(ReSearch(VERSION_PATTERN, content))
                 ELSE GetFieryInfo(pages, result, k + 1)
         IN dispatch(Strip(content))

\* FieryClient.detect_fiery
DetectFiery(pages) ==
    LET detected(k) == /\ HasPage(pages, FIERY_INDICATORS[k][1], {200, 301, 302})
                       /\ Contains(Lower(FIERY_INDICATORS[k][2]),
                                   Lower(pages[FIERY_INDICATORS[k][1]].content))
        informed(detection_result) ==
            IF detection_result.is_fiery THEN GetFieryInfo(pages, detection_result, 1)
            ELSE detection_result
        result(found) ==
            informed([is_fiery |-> found # {}, fiery_type |-> None, version |-> None,
                      model |-> None, accessible_endpoints |-> found])
    IN result({FIERY_INDICATORS[k][1] : k \in {h \in 1..Len(FIERY_INDICATORS) : detected(h)}})

(***************************************************************************)
(* Credential prober (discovery.py:342-416)                                *)
(***************************************************************************)
\* base_cookies of _test_admin_password
BASE_COOKIES == {"bv", "uatype", "lang", "favmode", "vm", "param", "access", "bm", "selno"}

\* the test without the except branch of line 413 swallowing the transport
\* error: the attempt does not count as rejected
TestAdminPasswordErrorNotRejected(answer) ==
    \/ answer.error
    \/ /\ answer.status \in {200, 302}
       /\ \/ \E name \in BASE_COOKIES \cup answer.cookies : Contains("ID", name)
          \/ answer.status = 302

\* NetworkDiscovery._test_admin_password on the answer of the login
\* endpoint: [error, status, cookies], error telling that the request ended
\* in a transport error (the except branch of line 413)
TestAdminPassword(answer) ==
    IF answer.error THEN FALSE
    ELSE /\ answer.status \in {200, 302}
         /\ \/ \E name \in BASE_COOKIES \cup answer.cookies : Contains("ID", name)
            \/ answer.status = 302

RECURSIVE TryPasswords(_, _, _)
\* the loop of _discover_admin_password from candidate number k on
TryPasswords(login, candidates, k) ==
    IF k > Len(candidates) THEN None
    ELSE IF TestAdminPassword(login[candidates[k]]) THEN candidates[k]
    ELSE TryPasswords(login, candidates, k + 1)

\* NetworkDiscovery._discover_admin_password
DiscoverAdminPassword(login, model) == TryPasswords(login, PasswordsToTry(model), 1)

\* dict.update
Update(d, e) == [k \in DOMAIN d \cup DOMAIN e |-> IF k \in DOMAIN e THEN e[k] ELSE d[k]]

\* NetworkDiscovery._get_device_capabilities
GetDeviceCapabilities(model, password) ==
    LET capabilities == [supports_color |-> TRUE, supports_duplex |-> TRUE,
                         max_paper_size |-> "A4",
                         supported_formats |-> <<"PDF", "PS", "PCL">>,
                         authentication_required |-> password # None,
                         admin_password_found |-> password # None]
    IN IF Truthy(model) /\ \E t \in {"C654", "C754", "C759"} : Contains(t, Upper(model))
       THEN Update(capabilities,
                   [supports_color |-> TRUE, max_paper_size |-> "A3", max_dpi |-> 1200,
                    has_finisher |-> TRUE,
                    supported_formats |-> <<"PDF", "PS", "PCL", "XPS">>])
       ELSE IF Truthy(model) /\ Contains("2100", Upper(model))
       THEN Update(capabilities,
                   [supports_color |-> FALSE, max_paper_size |-> "A4", max_dpi |-> 600,
                    has_finisher |-> FALSE])
       ELSE capabilities

(***************************************************************************)
(* NetworkDiscovery._scan_device (discovery.py:114-176), one stage per     *)
(* operator; each takes the device_info built so far.               *)
(***************************************************************************)
NewDeviceInfo(ip) ==
    [ip_address |-> ip, is_km_device |-> FALSE, reachable |-> FALSE, device_type |-> None,
     model |-> None, snmp_info |-> EmptyDict, http_accessible |-> FALSE,
     admin_password |-> None, capabilities |-> EmptyDict,
     fiery_controller |-> FALSE, fiery_info |-> EmptyDict]

\* lines 131-136
ScanPing(info, prof) == [info EXCEPT !.reachable = prof.ping]

\* lines 139-144
ScanSnmp(info, prof) ==
    LET identified(model) ==
            [info EXCEPT !.is_km_device = TRUE, !.snmp_info = prof.snmp,
                         !.model = model, !.device_type = DetermineDeviceType(model)]
    IN IF DictTruthy(prof.snmp) /\ IsKonicaMinolta(prof.snmp)
       THEN identified(ExtractModel(prof.snmp))
       ELSE info

\* lines 147-151
ScanHttp(info, prof) ==
    LET answered(http_info) ==
            IF DictTruthy(http_info)
            THEN [info EXCEPT !.http_accessible = TRUE,
                              !.is_km_device = info.is_km_device \/ IsKonicaMinolta(http_info)]
            ELSE info
    IN answered(HttpDiscovery(prof.pages))

\* line 154: whether the Fiery probe is run
FieryProbeRunsAlways(info) == TRUE

FieryProbeRuns(info) == ~info.is_km_device /\ info.http_accessible

\* lines 154-161; raised tells that _determine_fiery_device_type raised
ScanFiery(info, prof) ==
    LET typed(marked, device_type) ==
            IF device_type = "raise" THEN [info |-> marked, raised |-> TRUE]
            ELSE [info |-> [marked EXCEPT !.device_type = device_type], raised |-> FALSE]
        detected(fiery_info) ==
            IF fiery_info.is_fiery
            THEN typed([info EXCEPT !.is_km_device = TRUE, !.fiery_controller = TRUE,
                                    !.fiery_info = fiery_info, !.model = fiery_info.model],
                       DetermineFieryDeviceType(fiery_info))
            ELSE [info |-> info, raised |-> FALSE]
    IN IF FieryProbeRuns(info) THEN detected(DetectFiery(prof.pages))
       ELSE [info |-> info, raised |-> FALSE]

\* lines 164-170
ScanCredentials(info, prof) ==
    LET probed(password) ==
            [info EXCEPT !.admin_password = password,
                         !.capabilities = GetDeviceCapabilities(info.model, password)]
    IN IF info.is_km_device THEN probed(DiscoverAdminPassword(prof.login, info.model))
       ELSE info

\* lines 172-176: an exception raised by a stage leaves the try block and
\* the record is returned as it stands
ScanFinish(fiery, prof) ==
    IF fiery.raised THEN fiery.info ELSE ScanCredentials(fiery.info, prof)

\* the whole of _scan_device: the record it returns for address ip
ScanDevice(ip, prof) ==
    ScanFinish(ScanFiery(ScanHttp(ScanSnmp(ScanPing(NewDeviceInfo(ip), prof), prof), prof),
                         prof), prof)

(***************************************************************************)
(* Device (models/device.py) and NetworkDiscovery.create_device_objects    *)
(***************************************************************************)
\* DeviceCapabilities defaults (models/device.py:26-35)
DefaultCapabilities ==
    [supports_color |-> TRUE, supports_duplex |-> TRUE, max_paper_size |-> "A3",
     supported_formats |-> <<"PDF", "JPEG", "PNG", "TIFF">>, max_dpi |-> 1200,
     has_finisher |-> FALSE, has_stapler |-> FALSE, has_hole_punch |-> FALSE]

RECURSIVE IpParts(_, _)
\* ^(\d{1,3}\.){3}\d{1,3}$ on s, n groups still to come
IpParts(s, n) ==
    LET digits == RunLen(s, 1, "digit")
    IN IF digits < 1 \/ digits > 3 THEN FALSE
       ELSE IF n = 1 THEN digits = Len(s)
       ELSE CharAt(s, digits + 1) = "." /\ IpParts(SubSeq(s, digits + 2, Len(s)), n - 1)

\* Device.validate_ip_address
ValidIpAddress(v) == IpParts(v, 4)

\* absent timestamp (last_seen = None); the clock starts at 1
NoTime == 0

\* absent resource levels (toner_levels = None); present levels d are <<d>>
NoLevels == <<>>

\* Device(id=..., name=..., type=..., ip_address=..., admin_password=...)
\* with the field defaults of models/device.py:38-68
NewDevice(id, name, type, ip_address, admin_password) ==
    [id |-> id, name |-> name, type |-> type, ip_address |-> ip_address,
     status |-> "offline", admin_password |-> admin_password,
     capabilities |-> DefaultCapabilities, last_seen |-> NoTime,
     error_message |-> None, toner_levels |-> NoLevels, paper_levels |-> NoLevels]

\* device_id of create_device_objects (discovery.py:460-463)
DeviceId(model, ip_address) ==
    LET m == IF Truthy(model) THEN model ELSE "unknown"
        model_safe == IF Truthy(m) /\ m # "unknown" THEN m ELSE "unknown"
    IN "km-" \o Lower(model_safe) \o "-" \o Replace(ip_address, ".", "-")

\* the type create_device_objects gives the Device of a record whose
\* device_type is device_type (line 471)
TypeAsInferred(device_type) == device_type

TypeOrDefault(device_type) == IF device_type # None THEN device_type ELSE "C654e"

\* the Device create_device_objects builds from one record (lines 459-481)
DeviceOf(info) ==
    LET model == IF Truthy(info.model) THEN info.model ELSE "unknown"
        name == IF Truthy(model) /\ model # "unknown" THEN "Konica Minolta " \o model
                ELSE "Konica Minolta Device"
        device == NewDevice(DeviceId(info.model, info.ip_address), name,
                            TypeOrDefault(info.device_type),
                            info.ip_address, info.admin_password)
    IN [device EXCEPT !.capabilities =
           [k \in DOMAIN DefaultCapabilities |->
               IF k \in DOMAIN info.capabilities THEN info.capabilities[k]
               ELSE DefaultCapabilities[k]]]

(***************************************************************************)
(* The network: what an address can answer to the probes and to the login  *)
(* endpoint.                                                               *)
(***************************************************************************)
Page(status, content) == [status |-> status, content |-> content]

\* answers of /wcd/login.cgi
Rejected       == [error |-> FALSE, status |-> 200, cookies |-> {}]
AcceptedCookie == [error |-> FALSE, status |-> 200, cookies |-> {"ID"}]
AcceptedMoved  == [error |-> FALSE, status |-> 302, cookies |-> {}]
Forbidden      == [error |-> FALSE, status |-> 403, cookies |-> {"ID"}]
TransportError == [error |-> TRUE, status |-> 0, cookies |-> {}]

\* every password the prober can send
Candidates == {DEFAULT_PASSWORDS[k] : k \in 1..Len(DEFAULT_PASSWORDS)}
                \cup UNION {{BY_MODEL[k][2][j] : j \in 1..Len(BY_MODEL[k][2])} :
                              k \in 1..Len(BY_MODEL)}

RejectAll == [p \in Candidates |-> Rejected]
AcceptOnly(pw, answer) == [p \in Candidates |-> IF p = pw THEN answer ELSE Rejected]

Profiles ==
    [silent |->
        [ping |-> FALSE, snmp |-> EmptyDict, pages |-> EmptyDict,
         login |-> [p \in Candidates |-> TransportError]],
     hp |->
        [ping |-> TRUE, snmp |-> [description |-> "HP LaserJet 4000", name |-> "hp4000"],
         pages |-> [p \in {"/"} |-> Page(200, "HP Embedded Web Server")],
         login |-> RejectAll],
     c654 |->
        [ping |-> TRUE, snmp |-> [description |-> "KONICA MINOLTA bizhub C654e"],
         pages |-> [p \in {"/"} |-> Page(200, "bizhub C654e")],
         login |-> AcceptOnly("1234567812345678", AcceptedCookie)],
     c654locked |->
        [ping |-> TRUE, snmp |-> [description |-> "KONICA MINOLTA bizhub C654e"],
         pages |-> [p \in {"/"} |-> Page(200, "bizhub C654e")],
         login |-> RejectAll],
     c654blank |->
        [ping |-> TRUE, snmp |-> [description |-> "KONICA MINOLTA bizhub C654e"],
         pages |-> [p \in {"/"} |-> Page(200, "bizhub C654e")],
         login |-> AcceptOnly("", AcceptedMoved)],
     httpkm |->
        [ping |-> FALSE, snmp |-> EmptyDict,
         pages |-> [p \in {"/", "/wcd/"} |->
                      IF p = "/" THEN Page(404, "Not Found")
                      ELSE Page(200, "KONICA MINOLTA bizhub C654e Web Connection")],
         login |-> RejectAll],
     httpc759 |->
        [ping |-> TRUE, snmp |-> EmptyDict,
         pages |-> [p \in {"/"} |-> Page(200, "KONICA MINOLTA bizhub C759 PageScope")],
         login |-> RejectAll],
     cmdpage |->
        [ping |-> TRUE, snmp |-> EmptyDict,
         pages |-> [p \in {"/", "/command"} |->
                      IF p = "/" THEN Page(200, "Welcome to nginx")
                      ELSE Page(200, "Command reference")],
         login |-> RejectAll],
     fiery |->
        [ping |-> TRUE, snmp |-> EmptyDict,
         pages |-> [p \in {"/", "/wsi/", "/wsi/deviceinfo"} |->
                      IF p = "/" THEN Page(200, "Print server")
                      ELSE IF p = "/wsi/" THEN Page(200, "Fiery Web Services")
                      ELSE Page(200, "{\"model\": \"C759\", \"version\": \"2.0\"}")],
         login |-> AcceptOnly("1234567812345678", AcceptedMoved)]]

\* the profiles an address takes in the registry specification
ProfileNames ==
    {"silent", "hp", "c654", "c654locked", "c654blank", "httpkm", "httpc759", "cmdpage",
     "fiery"}

\* every text one probe of the address gets back
ProbeTexts(prof) ==
    {Get(prof.snmp, "description", "")} \cup {prof.pages[p].content : p \in DOMAIN prof.pages}

\* no probe response of the address contains a vendor identifier
NoVendorIdentifier(prof) == \A t \in ProbeTexts(prof) : ~HasIdentifier(t)

Addresses == {"10.0.0.4", "10.0.0.5"}

\* a target given by name, which the probes reach as they reach an address
NamedHost == "km.lan"

\* _scan_device for every address and profile, computed once
ScanTable ==
    [ip \in Addresses \cup {NamedHost}, p \in ProfileNames |-> ScanDevice(ip, Profiles[p])]

\* NoVendorIdentifier for every profile, computed once
NoVendorTable == [p \in ProfileNames |-> NoVendorIdentifier(Profiles[p])]

\* the Device construction of create_device_objects for one record: whether
\* validation accepts the address, and the Device built
BuiltDevice(info) ==
    [valid |-> ValidIpAddress(info.ip_address), device |-> DeviceOf(info)]

RECURSIVE CreateDeviceObjects(_)
\* NetworkDiscovery.create_device_objects over the list discovered_devices:
\* ok = FALSE when Device validation raised (the ValueError leaves the method)
CreateDeviceObjects(discovered) ==
    IF discovered = <<>> THEN [ok |-> TRUE, devices |-> <<>>]
    ELSE LET add(front, info, built) ==
                 IF ~front.ok THEN front
                 ELSE IF ~info.is_km_device THEN front
                 ELSE IF ~built.valid THEN [ok |-> FALSE, devices |-> <<>>]
                 ELSE [ok |-> TRUE, devices |-> Append(front.devices, built.device)]
         IN add(CreateDeviceObjects(SubSeq(discovered, 1, Len(discovered) - 1)),
                discovered[Len(discovered)], BuiltDevice(discovered[Len(discovered)]))

(***************************************************************************)
(* Scan targets                                                            *)
(***************************************************************************)
RECURSIVE IntToStr(_)
\* str(n) for n >= 0
IntToStr(n) ==
    IF n < 10 THEN CharAt(DigitChars, n + 1)
    ELSE IntToStr(n \div 10) \o CharAt(DigitChars, (n % 10) + 1)

\* str(ipaddress.IPv4Address) of the octets <<a, b, c, d>>
IpToStr(o) ==
    IntToStr(o[1]) \o "." \o IntToStr(o[2]) \o "." \o IntToStr(o[3]) \o "." \o IntToStr(o[4])

RECURSIVE Pow2(_)
Pow2(n) == IF n = 0 THEN 1 ELSE 2 * Pow2(n - 1)

\* list(ipaddress.IPv4Network(network, strict=False)) for a prefix length of
\* 16 or more: every address of the network, the host bits of the given
\* address masked off, in ascending order
IpRange(network) ==
    LET size == Pow2(32 - network.prefixlen)
        low  == network.address[3] * 256 + network.address[4]
        base == low - (low % size)
    IN [k \in 1..size |-> <<network.address[1], network.address[2],
                            (base + k - 1) \div 256, (base + k - 1) % 256>>]

\* str(ip).endswith(suffix)
EndsWith(s, suffix) ==
    Len(suffix) <= Len(s) /\ SubSeq(s, Len(s) - Len(suffix) + 1, Len(s)) = suffix

\* the addresses discover_network_range scans (discovery.py:66-76)
SweepTargets(network) ==
    LET keep(o) == ~(EndsWith(IpToStr(o), ".0") \/ EndsWith(IpToStr(o), ".255"))
        kept == SelectSeq(IpRange(network), keep)
    IN [k \in 1..Len(kept) |-> IpToStr(kept[k])]

\* settings.discovery_network
DiscoveryNetwork == [address |-> <<10, 0, 0, 4>>, prefixlen |-> 31]

\* the targets of the sweep of DiscoveryNetwork, computed once
SweepList == SweepTargets(DiscoveryNetwork)

\* settings.parse_machine_list(): the configured <<address, password>> pairs
MachineList == << <<"10.0.0.4", "s3cret">>, <<"10.0.0.5", "">> >>

\* the address lists given to discover_specific_ips
IpLists == {<<"10.0.0.4">>, <<"10.0.0.5", "10.0.0.4">>}

\* the record _scan_device returns for ip when it answers as profile p
ScanOf(ip, p) == ScanTable[ip, p]

\* the filter of quick_scan / discover_network_range (lines 81-84, 500-503)
\* over the gathered results of the targets
FoundDevices(targets, env) ==
    LET results == [k \in 1..Len(targets) |-> ScanOf(targets[k], env[targets[k]])]
        isKm(r) == r.is_km_device
    IN SelectSeq(results, isKm)

(***************************************************************************)
(* DeviceManager: the discovery operations (device_manager.py:260-364)     *)
(***************************************************************************)
\* the body of the merge loop for one new device, on reg = [devices, added]:
\* the registry and the ids the loop has inserted (the ones added_count
\* counts); backfill tells whether the loop has the else branch that
\* updates an existing device
MergeDeviceAlwaysInserts(reg, device, backfill) ==
    [devices |-> [k \in DOMAIN reg.devices \cup {device.id} |->
                     IF k = device.id THEN device ELSE reg.devices[k]],
     added |-> reg.added \cup {device.id}]

MergeDevice(reg, device, backfill) ==
    IF device.id \notin DOMAIN reg.devices
    THEN [devices |-> [k \in DOMAIN reg.devices \cup {device.id} |->
                          IF k = device.id THEN device ELSE reg.devices[k]],
          added |-> reg.added \cup {device.id}]
    ELSE IF backfill /\ Truthy(device.admin_password)
                     /\ ~Truthy(reg.devices[device.id].admin_password)
    THEN [reg EXCEPT !.devices[device.id].admin_password = device.admin_password]
    ELSE reg

RECURSIVE MergeDevices(_, _, _)
\* the merge loop over new_devices, first to last
MergeDevices(reg, new_devices, backfill) ==
    IF new_devices = <<>> THEN reg
    ELSE MergeDevice(MergeDevices(reg, SubSeq(new_devices, 1, Len(new_devices) - 1), backfill),
                     new_devices[Len(new_devices)], backfill)

RECURSIVE ConfiguredPassword(_, _, _)
\* the inner loop of lines 314-316: the password device ends with
ConfiguredPassword(device, machine_list, k) ==
    IF k > Len(machine_list) THEN device.admin_password
    ELSE IF device.ip_address = machine_list[k][1] /\ machine_list[k][2] # ""
    THEN ConfiguredPassword([device EXCEPT !.admin_password = machine_list[k][2]],
                            machine_list, k + 1)
    ELSE ConfiguredPassword(device, machine_list, k + 1)

\* lines 313-317
OverridePasswords(new_devices, machine_list) ==
    [k \in 1..Len(new_devices) |->
        [new_devices[k] EXCEPT !.admin_password = ConfiguredPassword(new_devices[k], machine_list, 1)]]

\* the devices a run hands to its merge loop (lines 264-268, 305-317)
NewDevices(found, machine_list) ==
    LET built(created) ==
            IF created.ok THEN OverridePasswords(created.devices, machine_list) ELSE <<>>
    IN built(CreateDeviceObjects(found))

Ids(new_devices) == {new_devices[k].id : k \in 1..Len(new_devices)}

\* number of discovery runs explored
MaxRuns == 2

VARIABLES
    devices,             \* DeviceManager._devices: id -> Device
    discovered_devices,  \* NetworkDiscovery.discovered_devices
    runs,                \* number of discovery runs made
    lastRun,             \* what the latest discovery run scanned and returned
    scans,               \* the discovery runs followed through their awaited scan
    target,              \* _scan_device in steps: the address scanned and what it answers
    scan_pc,             \* position of that scan
    device_info,         \* its device_info
    passwords_to_try,    \* passwords_to_try of _discover_admin_password
    attempts,            \* the passwords sent to the login endpoint, in order
    device_adapters,     \* DeviceManager._device_adapters: id -> adapter
    tasks,               \* the refresh_device_status call made for each id
    batch,               \* the refresh_all_devices call
    clock,               \* datetime.utcnow(), counted in refresh calls made
    handed,              \* per id: the adapter the latest request was handed
    connection_tests,    \* the test_device_connection call made for each id
    reply,               \* what the latest get_device / remove_device answered
    fanout,              \* the scan followed: its semaphore and its _scan_device calls
    status_check_task,   \* DeviceManager._status_check_task
    lifecycle            \* the start() and stop() calls made on the manager

regVars == <<devices, discovered_devices, runs, lastRun, scans, scans>>

scanVars == <<target, scan_pc, device_info, passwords_to_try, attempts>>

refreshVars == <<device_adapters, tasks, batch, clock>>

callVars == <<handed, connection_tests, reply>>

asyncVars == <<fanout, status_check_task, lifecycle>>

vars == <<regVars, scanVars, refreshVars, callVars, asyncVars>>

\* no scan is followed step by step
NoScan ==
    /\ target = [ip |-> "", prof |-> Profiles["silent"]]
    /\ scan_pc = "idle"
    /\ device_info = EmptyDict
    /\ passwords_to_try = <<>>
    /\ attempts = <<>>

\* no batch is running
NoBatch == [state |-> "idle", call |-> 0, ids |-> {}, raised |-> FALSE]

\* nothing was asked of get_device or remove_device yet; result holds the
\* Device get_device returned, answer the boolean remove_device returned,
\* and turn flips at every call
NoReply == [op |-> "none", id |-> "", raised |-> "", result |-> <<>>, answer |-> <<>>,
            turn |-> 0]

\* a manager no refresh has been asked of
NoRefresh ==
    /\ device_adapters = EmptyDict
    /\ tasks = EmptyDict
    /\ batch = NoBatch
    /\ clock = 1
    /\ handed = EmptyDict
    /\ connection_tests = EmptyDict
    /\ reply = NoReply

\* the scan whose fan-out is followed: kind none, sweep or targeted; state
\* idle, running or finished; value is the semaphore's counter; waiting,
\* probing and done count the _scan_device calls before, inside and after
\* the async with block
NoFanout == [kind |-> "none", state |-> "idle", value |-> 0, waiting |-> 0, probing |-> 0,
             done |-> 0]

\* the periodic task: pc is none (start() not called), created (not run
\* yet), sleeping, refreshing, finished or cancelled; must_cancel is set by
\* cancel() until the task has taken the CancelledError; failed_call is the
\* number of the latest refresh_all_devices call that ended in the except
\* branch of lines 68-69, 0 when none did
NoTask == [pc |-> "none", must_cancel |-> FALSE, failed_call |-> 0]

\* start: idle, discovering, refreshing, returned or raised; stop: idle,
\* awaiting, returned or raised; at: where the periodic task stood when
\* stop() cancelled it; orphans: the number of periodic tasks that run and
\* that _status_check_task no longer refers to
NotStarted == [start |-> "idle", stop |-> "idle", at |-> "", orphans |-> 0]

\* a manager that was not started and runs no scan
NoAsync ==
    /\ fanout = NoFanout
    /\ status_check_task = NoTask
    /\ lifecycle = NotStarted

\* the discovery runs followed through their scan: the start-up discovery and
\* a specific-address scan
Runs == {"auto", "specific"}

\* pc: "idle", "scanning" while the run awaits its gather, "done";
\* discovered_info: what its scan returned; new_devices: what
\* create_device_objects gave it; overwritten: another run assigned
\* discovered_devices while this one was scanning
IdleScan == [pc |-> "idle", targets |-> <<>>, env |-> EmptyDict, discovered_info |-> <<>>,
             new_devices |-> <<>>, overwritten |-> FALSE]

NoScans == [r \in Runs |-> IdleScan]

\* raised: the exception the latest discovery call raised to its caller
NoRun == [path |-> "none", targets |-> {}, env |-> EmptyDict, returned |-> {},
          added |-> {}, before |-> {}, repeat |-> FALSE, prevReturned |-> {},
          raised |-> ""]

\* the bookkeeping of one run: targets scanned under env, new_devices returned
RunRecord(path, targets, env, new_devices, added) ==
    LET tset == {targets[k] : k \in 1..Len(targets)}
        tenv == [ip \in tset |-> env[ip]]
    IN [path |-> path, targets |-> tset, env |-> tenv,
        returned |-> Ids(new_devices),
        added |-> added,
        before |-> DOMAIN devices,
        repeat |-> lastRun.path # "none" /\ lastRun.targets = tset /\ lastRun.env = tenv,
        prevReturned |-> lastRun.returned,
        raised |-> ""]

\* one discovery run: scan, create_device_objects, optional password
\* override, merge; a ValueError of create_device_objects is caught by the
\* caller's except branch, which returns []
DiscoveryRun(path, targets, env, machine_list, backfill) ==
    LET merged(new_devices, reg) ==
            /\ devices' = reg.devices
            /\ lastRun' = RunRecord(path, targets, env, new_devices, reg.added)
            /\ scans' = scans
        created(new_devices) ==
            merged(new_devices,
                   MergeDevices([devices |-> devices, added |-> {}], new_devices, backfill))
        scanned(found) ==
            /\ discovered_devices' = found
            /\ created(NewDevices(found, machine_list))
    IN /\ runs' = runs + 1
       /\ scanned(FoundDevices(targets, env))
       /\ UNCHANGED <<scanVars, asyncVars, refreshVars, callVars>>

\* DeviceManager._auto_discover_devices
AutoDiscoverDevices ==
    \E env \in [Addresses -> ProfileNames] :
        /\ runs < MaxRuns
        /\ DiscoveryRun("sweep", SweepList, env, <<>>, TRUE)

\* DeviceManager._load_predefined_devices
LoadPredefinedDevices ==
    \E env \in [Addresses -> ProfileNames] :
        /\ runs < MaxRuns
        /\ DiscoveryRun("predefined", [k \in 1..Len(MachineList) |-> MachineList[k][1]],
                        env, MachineList, TRUE)

\* DeviceManager.discover_specific_ips
DiscoverSpecificIps ==
    \E ip_list \in IpLists, env \in [Addresses -> ProfileNames] :
        /\ runs < MaxRuns
        /\ DiscoveryRun("specific", ip_list, env, <<>>, FALSE)

\* DeviceManager.discover_specific_ips on a list that names a host, which
\* answers as a C654e
DiscoverNamedHost ==
    \E env \in [Addresses -> ProfileNames] :
        /\ runs < MaxRuns
        /\ DiscoveryRun("specific", <<NamedHost, "10.0.0.4">>,
                        [h \in Addresses \cup {NamedHost} |->
                            IF h = NamedHost THEN "c654" ELSE env[h]], <<>>, FALSE)

\* the attributes of a Settings object (models/config.py:51-86)
SettingsFields ==
    {"database_url", "api_host", "api_port", "debug", "printer_c654e_ip",
     "printer_c654e_password", "printer_c759_ip", "printer_c754e_ip", "printer_km2100_ip",
     "snmp_community", "snmp_version", "max_concurrent_jobs", "job_timeout_seconds",
     "retry_attempts", "log_level", "log_file"}

\* the attributes the discovery operations read from self.settings
\* (device_manager.py:253, 264, 296)
DiscoveryFields == {"auto_discover", "discovery_network", "parse_machine_list"}

\* the settings objects a DeviceManager is built with: a Settings, or an
\* object that also carries the discovery attributes
SettingsObjects == {SettingsFields, SettingsFields \cup DiscoveryFields}

\* DeviceManager.discover_devices (lines 251-258): line 253 reads
\* settings.auto_discover outside any try block
DiscoverDevices ==
    \E fields \in SettingsObjects :
        /\ runs < MaxRuns
        /\ IF "auto_discover" \notin fields
           THEN /\ runs' = runs + 1
                /\ lastRun' = [lastRun EXCEPT !.raised = "AttributeError"]
                /\ UNCHANGED <<devices, discovered_devices, scans, scanVars, asyncVars, refreshVars,
                               callVars>>
           ELSE \E auto_discover \in BOOLEAN :
                    IF auto_discover THEN AutoDiscoverDevices ELSE LoadPredefinedDevices

Init ==
    /\ devices = EmptyDict
    /\ discovered_devices = <<>>
    /\ runs = 0
    /\ lastRun = NoRun
    /\ scans = NoScans
    /\ NoScan
    /\ NoRefresh
    /\ NoAsync

Next ==
    \/ AutoDiscoverDevices
    \/ LoadPredefinedDevices
    \/ DiscoverSpecificIps
    \/ DiscoverNamedHost
    \/ DiscoverDevices

Spec == Init /\ [][Next]_vars

(***************************************************************************)
(* Properties of the discovery runs (specification Spec)                   *)
(***************************************************************************)

\* C1: an address whose SNMP, HTTP-console and RIP-controller responses hold
\* no vendor identifier gets no Device from a discovery run: the run neither
\* returns nor registers one for it.
C1_NoDeviceWithoutVendorIdentifier ==
    \A ip \in lastRun.targets :
        NoVendorTable[lastRun.env[ip]] =>
            \A id \in lastRun.returned \cup lastRun.added : devices[id].ip_address # ip

\* C2: a discovery run over the same addresses, each answering as in the
\* run before, returns the same identifiers as that run, inserts no Device
\* and leaves the registry's identifier set as it was.
C2_RediscoveryIdempotent ==
    lastRun.repeat =>
        /\ lastRun.returned = lastRun.prevReturned
        /\ lastRun.added = {}
        /\ DOMAIN devices = lastRun.before

\* a repeated run that found devices has completed
C2_Witness == lastRun.repeat /\ lastRun.returned # {} /\ lastRun.before # {}

\* C3: a registered device that holds a credential (any value other than
\* None, the accepted empty password included) keeps exactly that
\* credential through every discovery run.
C3_CredentialKept ==
    [][\A id \in DOMAIN devices :
          devices[id].admin_password # None =>
              /\ id \in DOMAIN devices'
              /\ devices'[id].admin_password = devices[id].admin_password]_vars

\* C4: the registry never holds two Devices for one network address.
C4_OneDevicePerAddress ==
    \A i, j \in DOMAIN devices :
        devices[i].ip_address = devices[j].ip_address => i = j

(***************************************************************************)
(* _scan_device on one address, followed step by step (specification       *)
(* SpecScan): the probes, then one login attempt at a time, then the       *)
(* capabilities and the return.                                            *)
(***************************************************************************)
\* what the login endpoint can answer to one password
LoginAnswers == {Rejected, AcceptedCookie, AcceptedMoved, TransportError}

\* the addresses the followed scan can meet: the probe answers of a profile
\* with any behaviour of the login endpoint and either answer to the ping
ScanTargets ==
    {[ip |-> "10.0.0.4", prof |-> [Profiles[p] EXCEPT !.login = login, !.ping = ping]] :
        p \in ProfileNames, login \in [Candidates -> LoginAnswers], ping \in BOOLEAN}

InitScan ==
    /\ devices = EmptyDict
    /\ discovered_devices = <<>>
    /\ runs = 0
    /\ lastRun = NoRun
    /\ scans = NoScans
    /\ target \in ScanTargets
    /\ scan_pc = "probe"
    /\ device_info = NewDeviceInfo(target.ip)
    /\ passwords_to_try = <<>>
    /\ attempts = <<>>
    /\ NoRefresh
    /\ NoAsync

\* lines 131-136: whether a failed ping ends the pipeline (it is only logged)
PingEndsUnreachable(is_reachable) == ~is_reachable

PingEnds(is_reachable) == FALSE

\* lines 131-144 of _scan_device: ping, then the SNMP probe with
\* _extract_model and _determine_device_type
SnmpProbe ==
    /\ scan_pc = "probe"
    /\ IF PingEnds(target.prof.ping)
       THEN /\ device_info' = ScanPing(device_info, target.prof)
            /\ scan_pc' = "returned"
       ELSE /\ device_info' = ScanSnmp(ScanPing(device_info, target.prof), target.prof)
            /\ scan_pc' = "snmp"
    /\ UNCHANGED <<target, passwords_to_try, attempts, regVars, asyncVars, refreshVars, callVars>>

\* lines 147-151: the HTTP probe
HttpProbe ==
    /\ scan_pc = "snmp"
    /\ device_info' = ScanHttp(device_info, target.prof)
    /\ scan_pc' = "http"
    /\ UNCHANGED <<target, passwords_to_try, attempts, regVars, asyncVars, refreshVars, callVars>>

\* lines 154-161: the Fiery probe; when _determine_fiery_device_type raises
\* the record is returned as it stands (lines 174-176)
FieryProbe ==
    /\ scan_pc = "http"
    /\ FieryProbeRuns(device_info)
    /\ LET probed(fiery) ==
               /\ device_info' = fiery.info
               /\ scan_pc' = IF fiery.raised THEN "returned" ELSE "fiery"
       IN probed(ScanFiery(device_info, target.prof))
    /\ UNCHANGED <<target, passwords_to_try, attempts, regVars, asyncVars, refreshVars, callVars>>

\* line 164, and the candidate list of lines 344-356 when the prober is
\* entered
EnterProber ==
    /\ \/ scan_pc = "fiery"
       \/ scan_pc = "http" /\ ~FieryProbeRuns(device_info)
    /\ IF device_info.is_km_device
       THEN /\ scan_pc' = "login"
            /\ passwords_to_try' = PasswordsToTry(device_info.model)
       ELSE /\ scan_pc' = "returned"
            /\ passwords_to_try' = <<>>
    /\ UNCHANGED <<target, device_info, attempts, regVars, asyncVars, refreshVars, callVars>>

\* one turn of the loop of lines 358-364: the next candidate is sent to the
\* login endpoint; line 165 stores what the prober returns
TryPassword ==
    /\ scan_pc = "login"
    /\ LET password == passwords_to_try[Len(attempts) + 1]
       IN /\ attempts' = Append(attempts, password)
          /\ IF TestAdminPassword(target.prof.login[password])
             THEN /\ device_info' = [device_info EXCEPT !.admin_password = password]
                  /\ scan_pc' = "capabilities"
             ELSE /\ device_info' = device_info
                  /\ scan_pc' = IF Len(attempts) + 1 = Len(passwords_to_try)
                                THEN "capabilities" ELSE "login"
    /\ UNCHANGED <<target, passwords_to_try, regVars, asyncVars, refreshVars, callVars>>

\* lines 166-176
ScanReturn ==
    /\ scan_pc = "capabilities"
    /\ device_info' = [device_info EXCEPT !.capabilities =
                          GetDeviceCapabilities(device_info.model, device_info.admin_password)]
    /\ scan_pc' = "returned"
    /\ UNCHANGED <<target, passwords_to_try, attempts, regVars, asyncVars, refreshVars, callVars>>

NextScan ==
    \/ SnmpProbe
    \/ HttpProbe
    \/ FieryProbe
    \/ EnterProber
    \/ TryPassword
    \/ ScanReturn

SpecScan == InitScan /\ [][NextScan]_vars

\* the record the followed scan returns is the one ScanDevice computes
ScanStepsAgree ==
    scan_pc = "returned" => device_info = ScanDevice(target.ip, target.prof)

(***************************************************************************)
(* Properties of the credential prober (specification SpecScan)            *)
(***************************************************************************)
\* the prober has been entered and has left its loop
ProberDone == scan_pc \in {"capabilities", "returned"} /\ passwords_to_try # <<>>

\* the candidate order C5 states for the inferred model: the candidates of
\* the matching known-model keys, then the default list, first occurrences
C5_Order ==
    Dedup((IF Truthy(device_info.model) THEN ModelPasswords(device_info.model, 1) ELSE <<>>)
          \o DEFAULT_PASSWORDS)

\* the login endpoint accepts password pw
C5_Accepts(pw) ==
    target.prof.login[pw] \in {AcceptedCookie, AcceptedMoved}

\* C5: the login attempts made so far are the first candidates of the stated
\* order, one attempt per candidate; no attempt follows an accepted one; and
\* when the device accepts only the k-th candidate, the prober ends after
\* exactly k attempts with the k-th candidate as the credential.
C5_CandidateOrder ==
    /\ Len(attempts) <= Len(C5_Order)
    /\ attempts = SubSeq(C5_Order, 1, Len(attempts))
    /\ \A i \in 1..(Len(attempts) - 1) : ~C5_Accepts(attempts[i])
    /\ ProberDone =>
          \A k \in 1..Len(C5_Order) :
              (\A j \in 1..Len(C5_Order) : C5_Accepts(C5_Order[j]) <=> j = k)
                  => /\ Len(attempts) = k
                     /\ device_info.admin_password = C5_Order[k]

\* a scan of a device with a model-specific candidate that accepts only the
\* third candidate has returned
C5_Witness ==
    /\ scan_pc = "returned"
    /\ Truthy(device_info.model)
    /\ ModelPasswords(device_info.model, 1) # <<>>
    /\ Len(attempts) = 3
    /\ \A j \in 1..Len(C5_Order) : C5_Accepts(C5_Order[j]) <=> j = 3
    /\ device_info.admin_password = attempts[3]

\* every candidate of the list is answered by a rejection or a transport error
C6_AllRejected ==
    \A k \in 1..Len(passwords_to_try) :
        target.prof.login[passwords_to_try[k]] \in {Rejected, TransportError}

\* C6: an attempt that ends in a transport error yields no credential and
\* leaves the prober in its loop while candidates remain; when every
\* candidate is rejected the prober has tried them all and returns no
\* credential; and the scan that entered the prober returns the confirmed
\* record with its capabilities filled in (no exception left the prober),
\* the credential absent in that case.
C6_ProberNeverRaises ==
    /\ \A i \in 1..Len(attempts) :
          target.prof.login[attempts[i]].error =>
              /\ device_info.admin_password # attempts[i]
              /\ (i = Len(attempts) /\ i < Len(passwords_to_try)) => scan_pc = "login"
    /\ (ProberDone /\ C6_AllRejected) =>
          /\ attempts = passwords_to_try
          /\ device_info.admin_password = None
    /\ (scan_pc = "returned" /\ passwords_to_try # <<>>) =>
          /\ device_info.is_km_device
          /\ DictTruthy(device_info.capabilities)
          /\ device_info.capabilities.admin_password_found
                = (device_info.admin_password # None)

\* a scan whose login endpoint rejected or failed every candidate, at least
\* one by a transport error followed by a further candidate, has returned
C6_Witness ==
    /\ scan_pc = "returned"
    /\ passwords_to_try # <<>>
    /\ C6_AllRejected
    /\ \E i \in 1..(Len(attempts) - 1) : target.prof.login[attempts[i]].error
    /\ device_info.is_km_device
    /\ device_info.admin_password = None

(***************************************************************************)
(* DeviceManager: refresh (device_manager.py:91-180) and the adapters'     *)
(* get_status (devices/km_c654e.py:146-188, devices/km_2100.py:67-88).     *)
(***************************************************************************)
\* the attributes of a dict object: hasattr(d, name) is true of these and
\* of no key of d
DictAttributes == {"clear", "copy", "fromkeys", "get", "items", "keys", "pop",
                   "popitem", "setdefault", "update", "values"}

\* hasattr(status_info, name) for the dict an adapter returns
HasAttr(status_info, name) == name \in DictAttributes

\* what the SNMP agent of a device can answer to an adapter:
\* get_device_info raising, or get_supply_levels returning levels
SnmpAnswers == {[ok |-> FALSE, levels |-> EmptyDict],
                [ok |-> TRUE, levels |-> EmptyDict],
                [ok |-> TRUE, levels |-> [black |-> 80]]}

\* KMC654eAdapter.get_status, inherited by the C759 and C754e adapters; the
\* keys timestamp, http_status, snmp_info and pages_printed are left out
KMC654eGetStatus(device, snmp) ==
    Update([device_id |-> device.id, device_type |-> "C654e", reachable |-> TRUE],
           IF snmp.ok THEN [printer_status |-> "idle", toner_levels |-> snmp.levels]
           ELSE [snmp_error |-> "SNMP command failed"])

\* KM2100Adapter.get_status
KM2100GetStatus(device, snmp) ==
    Update([device_id |-> device.id, device_type |-> "2100", reachable |-> snmp.ok],
           IF snmp.ok THEN [printer_status |-> "idle"]
           ELSE [error |-> "SNMP command failed"])

\* the adapter class _get_device_adapter creates for a device type;
\* "raise" stands for the ValueError of line 176
AdapterClass(type) ==
    CASE type = "C654e" -> "KMC654eAdapter"
      [] type = "C759"  -> "KMC759Adapter"
      [] type = "C754e" -> "KMC754eAdapter"
      [] type = "2100"  -> "KM2100Adapter"
      [] OTHER          -> "raise"

\* _get_device_adapter (lines 159-180) asked by call number call for
\* device, whose type has an adapter class: the cache afterwards.  An
\* adapter is the instance <<id, call>> made for the id in that call.
GetDeviceAdapterUncached(cache, device, call) ==
    [k \in DOMAIN cache \cup {device.id} |->
        IF k = device.id
        THEN [cls |-> AdapterClass(device.type), current |-> TRUE,
              instance |-> <<device.id, call>>]
        ELSE cache[k]]

GetDeviceAdapter(cache, device, call) ==
    IF device.id \in DOMAIN cache THEN cache
    ELSE [k \in DOMAIN cache \cup {device.id} |->
             IF k = device.id
             THEN [cls |-> AdapterClass(device.type), current |-> TRUE,
                   instance |-> <<device.id, call>>]
             ELSE cache[k]]

\* the record of the adapter requests for id after one more of them was
\* handed instance: prior is the instance handed before, between tells
\* whether remove_device(id) returned true between the two
Hand(log, id, instance) ==
    [k \in DOMAIN log \cup {id} |->
        IF k # id THEN log[k]
        ELSE IF id \in DOMAIN log
             THEN [instance |-> instance, removed |-> FALSE,
                   prior |-> <<log[id].instance>>, between |-> log[id].removed]
             ELSE [instance |-> instance, removed |-> FALSE, prior |-> <<>>,
                   between |-> FALSE]]

\* adapter.get_status() of an adapter of class cls
GetStatus(cls, device, snmp) ==
    IF cls = "KM2100Adapter" THEN KM2100GetStatus(device, snmp)
    ELSE KMC654eGetStatus(device, snmp)

\* line 108: whether get_status is called after the connectivity check
CallsGetStatusAlways(is_online) == TRUE

CallsGetStatus(is_online) == is_online

\* lines 112-120 without the assignment of line 114
RefreshOnlineKeepsError(device, status_info, now) ==
    [device EXCEPT !.status = "online", !.last_seen = now,
                   !.toner_levels = IF HasAttr(status_info, "toner_levels")
                                    THEN <<status_info.toner_levels>> ELSE @,
                   !.paper_levels = IF HasAttr(status_info, "paper_levels")
                                    THEN <<status_info.paper_levels>> ELSE @]

\* lines 112-120: the device after get_status returned status_info
RefreshOnline(device, status_info, now) ==
    [device EXCEPT !.status = "online", !.last_seen = now, !.error_message = None,
                   !.toner_levels = IF HasAttr(status_info, "toner_levels")
                                    THEN <<status_info.toner_levels>> ELSE @,
                   !.paper_levels = IF HasAttr(status_info, "paper_levels")
                                    THEN <<status_info.paper_levels>> ELSE @]

\* lines 125-126 with the timestamp cleared as well
RefreshOfflineForgets(device) ==
    [device EXCEPT !.status = "offline", !.error_message = "Device not reachable",
                   !.last_seen = NoTime]

\* lines 125-126
RefreshOffline(device) ==
    [device EXCEPT !.status = "offline", !.error_message = "Device not reachable"]

\* lines 129-131: text is str(e)
RefreshError(device, text) ==
    [device EXCEPT !.status = "error", !.error_message = text]

\* lines 134-142: the DeviceStatusResponse (last_updated left out)
StatusResponse(device) ==
    [device_id |-> device.id, status |-> device.status,
     toner_levels |-> device.toner_levels, paper_levels |-> device.paper_levels,
     has_errors |-> device.status = "error",
     error_messages |-> IF Truthy(device.error_message) THEN <<device.error_message>>
                        ELSE <<>>]

\* asyncio.gather(*tasks, return_exceptions=True) on the exceptions that
\* left the tasks ("" for a task that returned): whether gather raises
GatherPropagates(outcomes) == \E o \in outcomes : o # ""

Gather(outcomes) == FALSE

\* number of refresh calls explored
MaxRefreshes == 2

\* the devices the operator adds by hand
ManualDevices ==
    {NewDevice("km-c654e-10-0-0-4", "Konica Minolta C654e", "C654e", "10.0.0.4", None),
     NewDevice("km-2100-10-0-0-5", "Konica Minolta 2100", "2100", "10.0.0.5", "12345678")}

ManualIds == {d.id : d \in ManualDevices}

\* what the awaited adapter.get_status() of line 110 can do: return the
\* report built from the SNMP answer, or let an exception e leave it with
\* str(e) = text.  The shipped get_status bodies catch what their network
\* calls raise, so e comes from outside their try blocks or from another
\* BaseDeviceAdapter implementation; text is "" for asyncio.TimeoutError()
\* and for MemoryError().
StatusAnswers ==
    {[raises |-> FALSE, text |-> "", snmp |-> a] : a \in SnmpAnswers}
      \cup {[raises |-> TRUE, text |-> t, snmp |-> [ok |-> FALSE, levels |-> EmptyDict]] :
               t \in {"", "Connection reset by peer"}}

\* refresh call number call, not run yet.  pc: created, checking (awaiting
\* _check_device_connectivity), status (awaiting get_status), done.  stale:
\* the Device object the call got from the registry has left it, device is
\* that object then.  raised: the exception that left the call; caught: the
\* text of the exception its except branch caught.
NewTask(call) ==
    [call |-> call, pc |-> "created", stale |-> FALSE, device |-> EmptyDict, adapter |-> "",
     is_online |-> "unchecked", called |-> FALSE, report |-> <<>>, raised |-> "",
     caught |-> <<>>, response |-> <<>>]

\* the Device object the call for id holds
Held(id) == IF tasks[id].stale THEN tasks[id].device ELSE devices[id]

\* the call for id goes on as task record t, having written its Device
\* object as device
StepDropsUnreachable(id, t, device) ==
    /\ tasks' = [tasks EXCEPT ![id] = IF t.stale \/ device.status # "online"
                                      THEN [t EXCEPT !.stale = TRUE, !.device = device]
                                      ELSE t]
    /\ devices' = IF t.stale THEN devices
                  ELSE IF device.status # "online"
                       THEN [k \in DOMAIN devices \ {id} |-> devices[k]]
                  ELSE [devices EXCEPT ![id] = device]

Step(id, t, device) ==
    /\ tasks' = [tasks EXCEPT ![id] = IF t.stale THEN [t EXCEPT !.device = device] ELSE t]
    /\ devices' = IF t.stale THEN devices ELSE [devices EXCEPT ![id] = device]

\* the call for id returns the response of lines 134-142
Return(id, t, device) ==
    Step(id, [t EXCEPT !.pc = "done", !.response = <<StatusResponse(device)>>], device)

\* the Device object registered under id leaves the registry: the call that
\* got it goes on with the object alone
Detach(id) ==
    IF id \in DOMAIN tasks /\ tasks[id].pc # "created" /\ tasks[id].raised = ""
       /\ ~tasks[id].stale
    THEN [tasks EXCEPT ![id].stale = TRUE, ![id].device = devices[id]]
    ELSE tasks

\* the same for the test_device_connection call that got the object
DetachTest(id) ==
    IF id \in DOMAIN connection_tests /\ connection_tests[id].pc = "testing"
       /\ ~connection_tests[id].stale
    THEN [connection_tests EXCEPT ![id].stale = TRUE, ![id].device = devices[id]]
    ELSE connection_tests

\* DeviceManager.add_device_manually
AddDeviceManually ==
    \E device \in ManualDevices :
        /\ devices' = [k \in DOMAIN devices \cup {device.id} |->
                          IF k = device.id THEN device ELSE devices[k]]
        /\ tasks' = Detach(device.id)
        /\ connection_tests' = DetachTest(device.id)
        /\ device_adapters' =
              [k \in DOMAIN device_adapters |->
                  IF k = device.id THEN [device_adapters[k] EXCEPT !.current = FALSE]
                  ELSE device_adapters[k]]
        /\ UNCHANGED <<discovered_devices, runs, lastRun, scans, batch, clock, scanVars, asyncVars, handed,
                       reply>>

\* lines 374-376 of remove_device for a registered id
Removed(id) ==
    /\ devices' = [k \in DOMAIN devices \ {id} |-> devices[k]]
    /\ device_adapters' = [k \in DOMAIN device_adapters \ {id} |-> device_adapters[k]]
    /\ tasks' = Detach(id)
    /\ connection_tests' = DetachTest(id)
    /\ handed' = [k \in DOMAIN handed |->
                     IF k = id THEN [handed[k] EXCEPT !.removed = TRUE] ELSE handed[k]]

\* DeviceManager.remove_device
RemoveDevice ==
    \E id \in ManualIds :
        /\ id \in DOMAIN devices
        /\ Removed(id)
        /\ UNCHANGED <<discovered_devices, runs, lastRun, scans, batch, clock, scanVars, asyncVars, reply>>

\* no refresh_device_status call is under way
NoneInFlight == \A id \in DOMAIN tasks : tasks[id].pc = "done"

\* DeviceManager.refresh_all_devices, line 93: one call per registered id
RefreshAllDevices ==
    /\ clock <= MaxRefreshes
    /\ batch.state # "running"
    /\ NoneInFlight
    /\ clock' = clock + 1
    /\ tasks' = [id \in DOMAIN devices |-> NewTask(clock)]
    /\ batch' = [state |-> "running", call |-> clock, ids |-> DOMAIN devices,
                 raised |-> FALSE]
    /\ UNCHANGED <<regVars, device_adapters, scanVars, asyncVars, callVars>>

\* line 95: gather returns once every call of the batch has ended
GatherReturns ==
    /\ batch.state = "running"
    /\ \A id \in batch.ids : tasks[id].pc = "done"
    /\ batch' = [batch EXCEPT !.state = "done",
                              !.raised = Gather({tasks[id].raised : id \in batch.ids})]
    /\ UNCHANGED <<regVars, device_adapters, tasks, clock, scanVars, asyncVars, callVars>>

\* a caller asks refresh_device_status(id)
RefreshDeviceStatus ==
    \E id \in ManualIds :
        /\ clock <= MaxRefreshes
        /\ batch.state # "running"
        /\ NoneInFlight
        /\ clock' = clock + 1
        /\ tasks' = [k \in DOMAIN tasks \cup {id} |-> IF k = id THEN NewTask(clock) ELSE tasks[k]]
        /\ UNCHANGED <<regVars, device_adapters, batch, scanVars, asyncVars, callVars>>

\* lines 99-103: get_device, then _get_device_adapter (lines 159-180)
RefreshGetAdapter ==
    \E id \in DOMAIN tasks :
        /\ tasks[id].pc = "created"
        /\ IF id \notin DOMAIN devices
           THEN /\ tasks' = [tasks EXCEPT ![id].pc = "done",
                                          ![id].raised = "DeviceNotFoundError"]
                /\ UNCHANGED <<devices, device_adapters, handed>>
           ELSE LET cls == IF id \in DOMAIN device_adapters THEN device_adapters[id].cls
                           ELSE AdapterClass(devices[id].type)
                IN IF cls = "raise"
                   THEN /\ Return(id, [tasks[id] EXCEPT !.caught = <<"Unsupported device type">>],
                                  RefreshError(devices[id], "Unsupported device type"))
                        /\ UNCHANGED <<device_adapters, handed>>
                   ELSE LET got(cache) ==
                                /\ device_adapters' = cache
                                /\ handed' = Hand(handed, id, cache[id].instance)
                        IN /\ got(GetDeviceAdapter(device_adapters, devices[id],
                                                   tasks[id].call))
                           /\ tasks' = [tasks EXCEPT ![id].pc = "checking",
                                                     ![id].adapter = cls]
                           /\ UNCHANGED devices
        /\ UNCHANGED <<discovered_devices, runs, lastRun, scans, batch, clock, scanVars, asyncVars,
                       connection_tests, reply>>

\* lines 106-110 and 124-127: the connectivity check answers
RefreshConnectivity ==
    \E id \in DOMAIN tasks, is_online \in BOOLEAN :
        /\ tasks[id].pc = "checking"
        /\ LET t == [tasks[id] EXCEPT !.is_online = IF is_online THEN "yes" ELSE "no"]
           IN IF CallsGetStatus(is_online)
              THEN /\ tasks' = [tasks EXCEPT ![id] = [t EXCEPT !.pc = "status", !.called = TRUE]]
                   /\ UNCHANGED devices
              ELSE Return(id, t, RefreshOffline(Held(id)))
        /\ UNCHANGED <<discovered_devices, runs, lastRun, scans, device_adapters, batch, clock,
                       scanVars, asyncVars, callVars>>

\* lines 110-122 and 129-131: get_status returns or raises
RefreshGetStatus ==
    \E id \in DOMAIN tasks, answer \in StatusAnswers :
        /\ tasks[id].pc = "status"
        /\ IF answer.raises
           THEN Return(id, [tasks[id] EXCEPT !.caught = <<answer.text>>],
                       RefreshError(Held(id), answer.text))
           ELSE LET returned(status_info) ==
                        Return(id, [tasks[id] EXCEPT !.report = <<status_info>>],
                               RefreshOnline(Held(id), status_info, clock))
                IN returned(GetStatus(tasks[id].adapter, Held(id), answer.snmp))
        /\ UNCHANGED <<discovered_devices, runs, lastRun, scans, device_adapters, batch, clock,
                       scanVars, asyncVars, callVars>>

\* number of discovery runs made while devices are refreshed
MaxRediscoveries == 1

\* what the two addresses answer to such a run
RefreshEnvs ==
    {[ip \in Addresses |-> IF ip = "10.0.0.4" THEN p ELSE "silent"] :
        p \in {"silent", "c654"}}

\* discover_network_range and create_device_objects (lines 267-270) under
\* each of these, computed once
SweepTable ==
    [env \in RefreshEnvs |->
        [found |-> FoundDevices(SweepList, env),
         new_devices |-> NewDevices(FoundDevices(SweepList, env), <<>>)]]

\* DeviceManager._auto_discover_devices called while refreshes are under
\* way: nothing is awaited between create_device_objects and the end of the
\* merge loop (lines 270-284), so the registry changes in one step
DiscoverDuringRefresh ==
    \E env \in RefreshEnvs :
        LET merged(reg) == devices' = reg.devices
            scanned(sweep) ==
                /\ discovered_devices' = sweep.found
                /\ merged(MergeDevices([devices |-> devices, added |-> {}],
                                       sweep.new_devices, TRUE))
        IN /\ runs < MaxRediscoveries
           /\ runs' = runs + 1
           /\ scanned(SweepTable[env])
           /\ UNCHANGED <<lastRun, scans, scanVars, asyncVars, refreshVars, callVars>>

InitRefresh ==
    /\ devices = EmptyDict
    /\ discovered_devices = <<>>
    /\ runs = 0
    /\ lastRun = NoRun
    /\ scans = NoScans
    /\ NoScan
    /\ NoRefresh
    /\ NoAsync

NextRefresh ==
    \/ AddDeviceManually
    \/ RemoveDevice
    \/ RefreshAllDevices
    \/ GatherReturns
    \/ RefreshDeviceStatus
    \/ RefreshGetAdapter
    \/ RefreshConnectivity
    \/ RefreshGetStatus
    \/ DiscoverDuringRefresh

SpecRefresh == InitRefresh /\ [][NextRefresh]_vars

(***************************************************************************)
(* DeviceManager: get_device, remove_device and test_device_connection     *)
(* next to single refreshes (specification SpecAdapter).                   *)
(***************************************************************************)
\* get_device (lines 71-75): the exception raised, or the registered Device
\* object returned, named by the id it carries
GetDeviceNeverRaises(reg, id) ==
    [raised |-> "", result |-> IF id \in DOMAIN reg THEN <<reg[id].id>> ELSE <<>>]

GetDevice(reg, id) ==
    IF id \notin DOMAIN reg THEN [raised |-> "DeviceNotFoundError", result |-> <<>>]
    ELSE [raised |-> "", result |-> <<reg[id].id>>]

\* a caller asks get_device(id)
GetDeviceCall ==
    \E id \in ManualIds :
        /\ reply' = [op |-> "get_device", id |-> id, raised |-> GetDevice(devices, id).raised,
                     result |-> GetDevice(devices, id).result, answer |-> <<>>,
                     turn |-> 1 - reply.turn]
        /\ UNCHANGED <<regVars, scanVars, asyncVars, refreshVars, handed, connection_tests>>

\* a caller asks remove_device(id), registered or not (lines 371-379)
RemoveDeviceCall ==
    \E id \in ManualIds :
        /\ reply' = [op |-> "remove_device", id |-> id, raised |-> "", result |-> <<>>,
                     answer |-> <<id \in DOMAIN devices>>, turn |-> 1 - reply.turn]
        /\ IF id \in DOMAIN devices THEN Removed(id)
           ELSE UNCHANGED <<devices, device_adapters, tasks, connection_tests, handed>>
        /\ UNCHANGED <<discovered_devices, runs, lastRun, scans, batch, clock, scanVars, asyncVars>>

\* test_device_connection call number call.  pc: testing (get_device has
\* returned, the HTTP and SNMP tests are awaited), done.  stale and device
\* as for a refresh call; adapter_test: what lines 218-227 put in the result
NewTest(call) ==
    [call |-> call, pc |-> "testing", stale |-> FALSE, device |-> EmptyDict, raised |-> "",
     adapter_test |-> ""]

\* the Device object the test call for id holds
HeldByTest(id) ==
    IF connection_tests[id].stale THEN connection_tests[id].device ELSE devices[id]

\* a caller asks test_device_connection(id): line 184
TestDeviceConnection ==
    \E id \in ManualIds :
        /\ clock <= MaxRefreshes
        /\ id \in DOMAIN connection_tests => connection_tests[id].pc = "done"
        /\ clock' = clock + 1
        /\ connection_tests' =
              [k \in DOMAIN connection_tests \cup {id} |->
                  IF k # id THEN connection_tests[k]
                  ELSE IF id \in DOMAIN devices THEN NewTest(clock)
                  ELSE [NewTest(clock) EXCEPT !.pc = "done",
                                              !.raised = "DeviceNotFoundError"]]
        /\ UNCHANGED <<regVars, scanVars, asyncVars, device_adapters, tasks, batch, handed, reply>>

\* lines 193-227: the HTTP and SNMP tests have answered; the adapter is
\* requested for the Device object the call holds and its test_connection
\* is awaited
TestGetAdapter ==
    \E id \in DOMAIN connection_tests :
        /\ connection_tests[id].pc = "testing"
        /\ IF id \notin DOMAIN device_adapters /\ AdapterClass(HeldByTest(id).type) = "raise"
           THEN /\ connection_tests' = [connection_tests EXCEPT ![id].pc = "done",
                                                                ![id].adapter_test = "error"]
                /\ UNCHANGED <<device_adapters, handed>>
           ELSE LET got(cache) ==
                        /\ device_adapters' =
                              IF id \in DOMAIN device_adapters THEN cache
                              ELSE [cache EXCEPT ![id].current = ~connection_tests[id].stale]
                        /\ handed' = Hand(handed, id, cache[id].instance)
                IN /\ got(GetDeviceAdapter(device_adapters, HeldByTest(id),
                                           connection_tests[id].call))
                   /\ connection_tests' = [connection_tests EXCEPT ![id].pc = "done",
                                                                   ![id].adapter_test = "tested"]
        /\ UNCHANGED <<regVars, scanVars, asyncVars, tasks, batch, clock, reply>>

InitAdapter ==
    /\ devices = EmptyDict
    /\ discovered_devices = <<>>
    /\ runs = 0
    /\ lastRun = NoRun
    /\ scans = NoScans
    /\ NoScan
    /\ NoRefresh
    /\ NoAsync

NextAdapter ==
    \/ AddDeviceManually
    \/ DiscoverDuringRefresh
    \/ GetDeviceCall
    \/ RemoveDeviceCall
    \/ RefreshDeviceStatus
    \/ RefreshGetAdapter
    \/ RefreshConnectivity
    \/ RefreshGetStatus
    \/ TestDeviceConnection
    \/ TestGetAdapter

SpecAdapter == InitAdapter /\ [][NextAdapter]_vars

(***************************************************************************)
(* Properties of refresh (specification SpecRefresh)                       *)
(***************************************************************************)
\* the calls of the latest refresh_all_devices
BatchCalls == {id \in batch.ids : id \in DOMAIN tasks /\ tasks[id].call = batch.call}

\* the status the refresh call with task record t determined
C7_Determined(t) ==
    IF t.caught # <<>> THEN "error" ELSE IF t.is_online = "no" THEN "offline" ELSE "online"

\* C7: when refresh_all_devices has returned, it has not raised, every call
\* of the batch has ended, and the Device of each call that did not raise
\* has the status that call determined, whatever the other calls did and
\* in whatever order their steps ran.
C7_RefreshAllIsolates ==
    batch.state = "done" =>
        /\ ~batch.raised
        /\ \A id \in BatchCalls :
              /\ tasks[id].pc = "done"
              /\ tasks[id].raised = "" => Held(id).status = C7_Determined(tasks[id])

\* a batch over two devices has returned: one call raised or ended in
\* error, the other one ended online
C7_Witness ==
    /\ batch.state = "done"
    /\ \E i, j \in BatchCalls :
          /\ i # j
          /\ tasks[i].raised # "" \/ tasks[i].caught # <<>>
          /\ tasks[j].raised = ""
          /\ tasks[j].report # <<>>
          /\ Held(j).status = "online"

\* C8: a refresh call whose connectivity check succeeded and whose adapter
\* raised ends with status error, a non-empty error message and a status
\* response, and no exception leaves the call.
C8_ErrorMessageSet ==
    \A id \in DOMAIN tasks :
        (tasks[id].pc = "done" /\ tasks[id].caught # <<>>) =>
            /\ tasks[id].raised = ""
            /\ tasks[id].response # <<>>
            /\ Held(id).status = "error"
            /\ Truthy(Held(id).error_message)

\* C9: get_status is called only in a refresh whose connectivity check
\* succeeded; a refresh whose check failed ends offline with get_status
\* never called.
C9_StatusAfterConnectivity ==
    \A id \in DOMAIN tasks :
        /\ tasks[id].called => tasks[id].is_online = "yes"
        /\ (tasks[id].pc = "done" /\ tasks[id].is_online = "no") =>
              /\ ~tasks[id].called
              /\ tasks[id].report = <<>>
              /\ Held(id).status = "offline"

\* one refresh has ended after a failed check, another one has called
\* get_status after a successful check
C9_Witness ==
    /\ \E id \in DOMAIN tasks : tasks[id].pc = "done" /\ tasks[id].is_online = "no"
    /\ \E id \in DOMAIN tasks : tasks[id].called /\ tasks[id].is_online = "yes"

\* C10: after a refresh that ended online, the device's toner and paper
\* levels are the ones in the status report the adapter returned.
C10_LevelsFromReport ==
    \A id \in DOMAIN tasks :
        (tasks[id].pc = "done" /\ tasks[id].report # <<>> /\ Held(id).status = "online") =>
            /\ "toner_levels" \in DOMAIN tasks[id].report[1]
                  => Held(id).toner_levels = <<tasks[id].report[1].toner_levels>>
            /\ "paper_levels" \in DOMAIN tasks[id].report[1]
                  => Held(id).paper_levels = <<tasks[id].report[1].paper_levels>>

\* C11: the set of registered ids shrinks in no step but remove_device:
\* whatever a refresh, a batch of refreshes or a discovery run finds, every
\* id registered before the step is registered after it.
C11_OnlyRemoveShrinks ==
    [][(DOMAIN devices \subseteq DOMAIN devices') \/ RemoveDevice]_vars

\* a refresh has ended offline, another one in error, a discovery run has
\* found nothing, and the devices are still registered
C11_Witness ==
    /\ runs > 0
    /\ discovered_devices = <<>>
    /\ \E i, j \in DOMAIN tasks \cap DOMAIN devices :
          /\ tasks[i].pc = "done" /\ ~tasks[i].stale /\ devices[i].status = "offline"
          /\ tasks[i].is_online = "no"
          /\ tasks[j].pc = "done" /\ ~tasks[j].stale /\ devices[j].status = "error"

(***************************************************************************)
(* Properties of the adapter cache and of the lookups (specification       *)
(* SpecAdapter)                                                            *)
(***************************************************************************)
\* C12: of two successive adapter requests for one id, the second is
\* handed the instance the first was handed exactly when remove_device(id)
\* did not return true between them; after a removal (and a new
\* registration of the id) it is handed another instance.
C12_AdapterCachedUntilRemoved ==
    \A id \in DOMAIN handed :
        handed[id].prior # <<>> =>
            (handed[id].instance = handed[id].prior[1]) <=> ~handed[id].between

\* an adapter was handed out for an id, the id was removed and discovered
\* again, and the next request was handed the adapter now cached
C12_Witness ==
    \E id \in DOMAIN handed \cap DOMAIN devices \cap DOMAIN device_adapters :
        /\ handed[id].prior # <<>>
        /\ handed[id].between
        /\ runs > 0
        /\ \E k \in 1..Len(discovered_devices) :
              DeviceId(discovered_devices[k].model, discovered_devices[k].ip_address) = id
        /\ device_adapters[id].instance = handed[id].instance

\* C18: get_device and refresh_device_status raise DeviceNotFoundError
\* exactly when the id is not registered at the call, remove_device
\* answers false exactly then and true otherwise with the id gone, and a
\* call that does not find the id leaves registry and adapter cache as
\* they were.
C18_NotFoundExactly ==
    [][/\ reply' # reply =>
             /\ reply'.op = "get_device" =>
                   /\ (reply'.raised = "DeviceNotFoundError") <=> reply'.id \notin DOMAIN devices
                   /\ reply'.raised = "" => reply'.result = <<reply'.id>>
                   /\ UNCHANGED <<devices, device_adapters>>
             /\ reply'.op = "remove_device" =>
                   /\ reply'.raised = ""
                   /\ (reply'.answer = <<FALSE>>) <=> reply'.id \notin DOMAIN devices
                   /\ reply'.answer = <<TRUE>> => reply'.id \notin DOMAIN devices'
                   /\ reply'.answer = <<FALSE>> => UNCHANGED <<devices, device_adapters>>
       /\ \A id \in DOMAIN tasks :
             (tasks[id].pc = "created" /\ tasks'[id].pc # "created") =>
                 /\ (tasks'[id].raised = "DeviceNotFoundError") <=> id \notin DOMAIN devices
                 /\ id \notin DOMAIN devices => UNCHANGED <<devices, device_adapters>>
      ]_vars

\* remove_device has answered false for an id that a refresh did not find
\* either, while another device is registered
C18_Witness ==
    /\ reply.op = "remove_device"
    /\ reply.answer = <<FALSE>>
    /\ reply.id \in DOMAIN tasks
    /\ tasks[reply.id].raised = "DeviceNotFoundError"
    /\ devices # EmptyDict

\* C19: every id that has an adapter in the cache is registered.
C19_CacheWithinRegistry == DOMAIN device_adapters \subseteq DOMAIN devices

(***************************************************************************)
(* The SNMP probe of _scan_device on descriptions that name a unit and a   *)
(* print controller (specification SpecExtract)                            *)
(***************************************************************************)
\* texts in which the vendor name is followed by a model number
VendorTexts ==
    {"KONICA MINOLTA C654e", "KONICA MINOLTA bizhub 754", "KONICA MINOLTA 2100",
     "Konica Minolta C759", "KONICA MINOLTA bizhub C3350i"}

\* texts that hold a controller code one of the Fiery patterns matches
ControllerTexts ==
    {"Fiery ES IC-418", "Fiery ES IC-417", "Fiery E100 60-55C-KM", "Fiery E200 60-55C-KM",
     "Fiery XB200", "fiery es ic-308"}

\* the sysDescr values the SNMP agent answers: a unit, a controller, or both
\* in either order
Descriptions ==
    {[vendor |-> v, controller |-> "", description |-> v] : v \in VendorTexts}
      \cup {[vendor |-> "", controller |-> c, description |-> c] : c \in ControllerTexts}
      \cup {[vendor |-> v, controller |-> c, description |-> v \o " " \o c] :
               v \in VendorTexts, c \in ControllerTexts}
      \cup {[vendor |-> v, controller |-> c, description |-> c \o " " \o v] :
               v \in VendorTexts, c \in ControllerTexts}

InitExtract ==
    /\ devices = EmptyDict
    /\ discovered_devices = <<>>
    /\ runs = 0
    /\ lastRun = NoRun
    /\ scans = NoScans
    /\ \E d \in Descriptions :
          target = [ip |-> "10.0.0.4", vendor |-> d.vendor, controller |-> d.controller,
                    prof |-> [ping |-> TRUE, snmp |-> [description |-> d.description],
                              pages |-> EmptyDict, login |-> RejectAll]]
    /\ scan_pc = "probe"
    /\ device_info = NewDeviceInfo(target.ip)
    /\ passwords_to_try = <<>>
    /\ attempts = <<>>
    /\ NoRefresh
    /\ NoAsync

NextExtract == SnmpProbe

SpecExtract == InitExtract /\ [][NextExtract]_vars

\* C13: when the description holds a controller code and the vendor name
\* followed by a model number, the model extracted is the one the
\* controller code alone yields.
C13_ControllerModelPreferred ==
    (scan_pc = "snmp" /\ target.vendor # "" /\ target.controller # "") =>
        device_info.model = ExtractModel([description |-> target.controller])

(***************************************************************************)
(* Targeted scan of an address that answers on HTTP only                   *)
(***************************************************************************)
\* the supported models the console body of an SNMP-silent address names
\* next to a vendor identifier
HttpNamedModels(prof) ==
    LET named(http_info) ==
            IF DictTruthy(http_info) /\ IsKonicaMinolta(http_info)
            THEN {m \in DeviceType : Contains(Upper(m), Upper(http_info.content_snippet))}
            ELSE {}
    IN IF DictTruthy(prof.snmp) THEN {} ELSE named(HttpDiscovery(prof.pages))

\* HttpNamedModels for every profile, computed once
HttpNamedTable == [p \in ProfileNames |-> HttpNamedModels(Profiles[p])]

\* the login endpoint of the address accepts none of the candidates
NoneAccepted(prof) == \A p \in Candidates : ~TestAdminPassword(prof.login[p])

\* the Devices the latest run built for address ip
BuiltFor(ip) ==
    LET here(device) == device.ip_address = ip
    IN SelectSeq(NewDevices(discovered_devices, <<>>), here)

\* C14: a targeted scan of an SNMP-silent address whose console body names
\* the vendor and a supported model builds exactly one Device for it, of
\* that model's type, without a credential when no candidate is accepted
\* and with status, error message and last-contact time left at their
\* defaults.
C14_HttpOnlyDeviceTyped ==
    lastRun.path = "specific" =>
        \A ip \in lastRun.targets : \A m \in HttpNamedTable[lastRun.env[ip]] :
            LET typed(made) ==
                    /\ Len(made) = 1
                    /\ made[1].type = m
                    /\ NoneAccepted(Profiles[lastRun.env[ip]]) => made[1].admin_password = None
                    /\ made[1].status = "offline"
                    /\ made[1].error_message = None
                    /\ made[1].last_seen = NoTime
            IN typed(BuiltFor(ip))

\* C17: no discovery call on the registry raises to its caller.
C17_DiscoveryNeverRaises == lastRun.raised = ""

(***************************************************************************)
(* The fan-out of one scan under its semaphore (specification SpecFanout)  *)
(***************************************************************************)
\* asyncio.Semaphore(50) of discover_network_range
SweepLimit == 50

\* asyncio.Semaphore(20) of quick_scan
TargetedLimit == 20

\* largest number of hosts swept and of addresses listed
MaxSweepHosts == 52
MaxListLen == 22

\* asyncio.Semaphore.locked(): acquire has to wait
LockedNever(value) == FALSE

Locked(value) == value = 0

\* the gather of one _scan_device call per target, all of them before the
\* async with block, and the semaphore the calls share
FanOut(kind, limit, n) ==
    [kind |-> kind, state |-> "running", value |-> limit, waiting |-> n, probing |-> 0,
     done |-> 0]

\* NetworkDiscovery.discover_network_range, lines 68-78, over n hosts
DiscoverNetworkRange ==
    \E n \in 0..MaxSweepHosts :
        /\ fanout.state # "running"
        /\ fanout' = FanOut("sweep", SweepLimit, n)
        /\ UNCHANGED <<regVars, scanVars, refreshVars, callVars, status_check_task, lifecycle>>

\* NetworkDiscovery.quick_scan, lines 491-498, over n addresses
QuickScan ==
    \E n \in 0..MaxListLen :
        /\ fanout.state # "running"
        /\ fanout' = FanOut("targeted", TargetedLimit, n)
        /\ UNCHANGED <<regVars, scanVars, refreshVars, callVars, status_check_task, lifecycle>>

\* _scan_device, line 116: one call acquires the semaphore and starts probing
EnterScan ==
    /\ fanout.state = "running"
    /\ fanout.waiting > 0
    /\ ~Locked(fanout.value)
    /\ fanout' = [fanout EXCEPT !.value = @ - 1, !.waiting = @ - 1, !.probing = @ + 1]
    /\ UNCHANGED <<regVars, scanVars, refreshVars, callVars, status_check_task, lifecycle>>

\* how the try block of _scan_device ends: the record is returned with
\* identity confirmed or not (line 172), or a stage raised and the except
\* branch returns the record (lines 174-176)
ScanOutcomes == {"confirmed", "inconclusive", "exception"}

\* whether leaving the async with block of line 116 releases the semaphore
ReleasedUnlessRaised(outcome) == outcome # "exception"

Released(outcome) == TRUE

\* _scan_device, lines 172-176: one call returns its record and leaves the
\* async with block, which releases the semaphore
LeaveScan ==
    \E outcome \in ScanOutcomes :
        /\ fanout.state = "running"
        /\ fanout.probing > 0
        /\ fanout' = [fanout EXCEPT !.value = IF Released(outcome) THEN @ + 1 ELSE @,
                                    !.probing = @ - 1, !.done = @ + 1]
        /\ UNCHANGED <<regVars, scanVars, refreshVars, callVars, status_check_task, lifecycle>>

\* the gather of line 78 / 498 returns once every call has returned
GatherScans ==
    /\ fanout.state = "running"
    /\ fanout.waiting = 0
    /\ fanout.probing = 0
    /\ fanout' = [fanout EXCEPT !.state = "finished"]
    /\ UNCHANGED <<regVars, scanVars, refreshVars, callVars, status_check_task, lifecycle>>

InitFanout ==
    /\ devices = EmptyDict
    /\ discovered_devices = <<>>
    /\ runs = 0
    /\ lastRun = NoRun
    /\ scans = NoScans
    /\ NoScan
    /\ NoRefresh
    /\ NoAsync

NextFanout ==
    \/ DiscoverNetworkRange
    \/ QuickScan
    \/ EnterScan
    \/ LeaveScan
    \/ GatherScans

SpecFanout == InitFanout /\ [][NextFanout]_vars

\* C16: at every moment of a scan at most 50 of its address pipelines are
\* past the limiter and probing in a subnet sweep, and at most 20 in a
\* targeted-list scan.
C16_FanOutBounded ==
    /\ fanout.kind = "sweep" => fanout.probing <= 50
    /\ fanout.kind = "targeted" => fanout.probing <= 20

\* a sweep with 50 pipelines probing and another held back by the limiter
C16_Witness ==
    /\ fanout.kind = "sweep"
    /\ fanout.probing = 50
    /\ fanout.waiting > 0

(***************************************************************************)
(* DeviceManager.start, stop and _periodic_status_check (specification     *)
(* SpecLifecycle)                                                          *)
(***************************************************************************)
\* lines 93-95 of refresh_all_devices over the registry reg: one call per
\* id; gather of no call is done at once
BeginRefreshAll(reg) ==
    /\ clock' = clock + 1
    /\ tasks' = [id \in DOMAIN reg |-> NewTask(clock)]
    /\ batch' = [state |-> IF DOMAIN reg = {} THEN "done" ELSE "running", call |-> clock,
                 ids |-> DOMAIN reg, raised |-> FALSE]

\* start(), lines 36-45: the task is created, then discover_devices reads
\* settings.auto_discover
StartManager ==
    \E fields \in SettingsObjects :
        /\ lifecycle.start = "idle"
        /\ status_check_task' = [NoTask EXCEPT !.pc = "created"]
        /\ lifecycle' = [lifecycle EXCEPT !.start = IF "auto_discover" \in fields
                                                    THEN "discovering" ELSE "raised"]
        /\ UNCHANGED <<regVars, scanVars, refreshVars, callVars, fanout>>

\* start(), lines 45-47: the discovery returns, its devices are merged and
\* the initial refresh_all_devices begins
StartDiscovers ==
    \E env \in RefreshEnvs :
        LET merged(reg) ==
                /\ devices' = reg.devices
                /\ BeginRefreshAll(reg.devices)
                /\ lifecycle' = [lifecycle EXCEPT !.start = IF DOMAIN reg.devices = {}
                                                            THEN "returned" ELSE "refreshing"]
            scanned(sweep) ==
                /\ discovered_devices' = sweep.found
                /\ merged(MergeDevices([devices |-> devices, added |-> {}],
                                       sweep.new_devices, TRUE))
        IN /\ lifecycle.start = "discovering"
           /\ clock <= MaxRefreshes
           /\ runs' = runs + 1
           /\ scanned(SweepTable[env])
           /\ UNCHANGED <<lastRun, scans, scanVars, device_adapters, callVars, fanout,
                          status_check_task>>

\* start(), line 47: the initial refresh_all_devices returned
StartReturns ==
    /\ lifecycle.start = "refreshing"
    /\ batch.state = "done"
    /\ lifecycle' = [lifecycle EXCEPT !.start = "returned"]
    /\ UNCHANGED <<regVars, scanVars, refreshVars, callVars, fanout, status_check_task>>

\* the task takes its next step as usual: no cancellation is pending
Resumes(task) == ~task.must_cancel

\* _periodic_status_check, lines 62-64: the task runs for the first time
\* and sleeps
PeriodicStarts ==
    /\ status_check_task.pc = "created"
    /\ Resumes(status_check_task)
    /\ status_check_task' = [status_check_task EXCEPT !.pc = "sleeping"]
    /\ UNCHANGED <<regVars, scanVars, refreshVars, callVars, fanout, lifecycle>>

\* lines 64-65: the sleep is over and refresh_all_devices begins
PeriodicRefreshAll ==
    /\ status_check_task.pc = "sleeping"
    /\ Resumes(status_check_task)
    /\ clock <= MaxRefreshes
    /\ batch.state # "running"
    /\ lifecycle.start \notin {"discovering", "refreshing"}
    /\ BeginRefreshAll(devices)
    /\ status_check_task' = [status_check_task EXCEPT !.pc = IF DOMAIN devices = {}
                                                             THEN "sleeping"
                                                             ELSE "refreshing"]
    /\ UNCHANGED <<regVars, scanVars, device_adapters, callVars, fanout, lifecycle>>

\* where the task stands after the except branch of lines 68-69 took an
\* Exception at position pc: the error is logged and the while loop goes
\* on with the next sleep
OnExceptionEnds(pc) == "finished"

OnException(pc) == "sleeping"

\* lines 65, 68-69 and 62: the awaited refresh_all_devices returns, or an
\* Exception leaves it (gather returns the exceptions of the calls, so
\* this is one raised outside them, a MemoryError for instance), and the
\* task sleeps again
PeriodicSleeps ==
    \E raises \in BOOLEAN :
        /\ status_check_task.pc = "refreshing"
        /\ Resumes(status_check_task)
        /\ batch.state = "done"
        /\ status_check_task' =
              IF raises
              THEN [status_check_task EXCEPT !.pc = OnException(status_check_task.pc),
                                             !.failed_call = batch.call]
              ELSE [status_check_task EXCEPT !.pc = "sleeping"]
        /\ UNCHANGED <<regVars, scanVars, refreshVars, callVars, fanout, lifecycle>>

\* Task.cancel() reaching the gather the task awaits: every call of the
\* batch that has not ended is cancelled; CancelledError is no Exception,
\* so the except branch of refresh_device_status (line 129) and the one of
\* _check_device_connectivity (line 156) let it pass
CancelChildren(calls) ==
    [id \in DOMAIN calls |->
        IF calls[id].pc # "done"
        THEN [calls[id] EXCEPT !.pc = "cancelled", !.raised = "CancelledError"]
        ELSE calls[id]]

\* stop(), lines 53-56: cancel() and the await of the task
StopManager ==
    /\ lifecycle.stop = "idle"
    /\ lifecycle.start \in {"returned", "raised"}
    /\ IF status_check_task.pc = "none"
       THEN /\ lifecycle' = [lifecycle EXCEPT !.stop = "returned"]
            /\ UNCHANGED <<status_check_task, tasks>>
       ELSE /\ lifecycle' = [lifecycle EXCEPT !.stop = "awaiting",
                                              !.at = status_check_task.pc]
            /\ status_check_task' = [status_check_task EXCEPT !.must_cancel = TRUE]
            /\ tasks' = IF status_check_task.pc = "refreshing" /\ batch.state = "running"
                        THEN CancelChildren(tasks) ELSE tasks
    /\ UNCHANGED <<regVars, scanVars, device_adapters, batch, clock, callVars, fanout>>

\* where the task stands once the CancelledError was thrown into it at
\* position pc: a task that never ran ends cancelled; at the sleep or at
\* refresh_all_devices the except branch of lines 66-67 breaks the loop
OnCancelledContinues(pc) == "sleeping"

OnCancelled(pc) == IF pc = "created" THEN "cancelled" ELSE "finished"

\* the task takes the CancelledError
PeriodicCancelled ==
    /\ status_check_task.must_cancel
    /\ status_check_task.pc \in {"created", "sleeping", "refreshing"}
    /\ status_check_task' = [status_check_task EXCEPT !.pc = OnCancelled(status_check_task.pc),
                                                      !.must_cancel = FALSE]
    /\ batch' = IF status_check_task.pc = "refreshing" /\ batch.state = "running"
                THEN [batch EXCEPT !.state = "cancelled"] ELSE batch
    /\ UNCHANGED <<regVars, scanVars, device_adapters, tasks, clock, callVars, fanout,
                   lifecycle>>

\* stop(), lines 56-58: the awaited task has ended; the CancelledError of
\* a cancelled task is caught
StopReturns ==
    /\ lifecycle.stop = "awaiting"
    /\ status_check_task.pc \in {"finished", "cancelled"}
    /\ lifecycle' = [lifecycle EXCEPT !.stop = "returned"]
    /\ UNCHANGED <<regVars, scanVars, refreshVars, callVars, fanout, status_check_task>>

InitLifecycle ==
    /\ devices = EmptyDict
    /\ discovered_devices = <<>>
    /\ runs = 0
    /\ lastRun = NoRun
    /\ scans = NoScans
    /\ NoScan
    /\ NoRefresh
    /\ NoAsync

NextLifecycle ==
    \/ AddDeviceManually
    \/ StartManager
    \/ StartDiscovers
    \/ StartReturns
    \/ PeriodicStarts
    \/ PeriodicRefreshAll
    \/ PeriodicSleeps
    \/ RefreshGetAdapter
    \/ RefreshConnectivity
    \/ RefreshGetStatus
    \/ GatherReturns
    \/ StopManager
    \/ PeriodicCancelled
    \/ StopReturns

\* the event loop runs a task that is ready: the cancelled task takes its
\* CancelledError and the stop() call resumes once the task has ended
SpecLifecycle ==
    InitLifecycle /\ [][NextLifecycle]_vars
        /\ WF_vars(PeriodicCancelled) /\ WF_vars(StopReturns)

\* C15: once stop() was called on a started manager it returns without
\* raising, the periodic task has ended by then, and no refresh_all_devices
\* is begun after the call, wherever the task stood when it was cancelled.
C15_StopEndsPeriodicTask ==
    /\ [](lifecycle.stop # "raised")
    /\ [](lifecycle.stop = "returned" => status_check_task.pc \in {"finished", "cancelled"})
    /\ [][lifecycle.stop # "idle" => batch'.call = batch.call]_vars
    /\ (lifecycle.stop = "awaiting" ~> lifecycle.stop = "returned")

\* stop() returned after it cancelled the task during a refresh_all_devices
\* with a call in flight
C15_Witness ==
    /\ lifecycle.stop = "returned"
    /\ lifecycle.at = "refreshing"
    /\ \E id \in batch.ids : tasks[id].raised = "CancelledError"

\* C20: when stop() is called during a refresh_all_devices of the periodic
\* task, every call of that batch runs to its end.
C20_InFlightRefreshesComplete ==
    (lifecycle.stop = "returned" /\ lifecycle.at = "refreshing") =>
        \A id \in batch.ids : tasks[id].pc = "done"

\* C21: a record returned with identity confirmed has been through the
\* credential prober and the capability step.
C21_ConfirmedRecordProbed ==
    (scan_pc = "returned" /\ device_info.is_km_device) =>
        /\ attempts # <<>>
        /\ device_info.capabilities # EmptyDict

\* C22: the HTTP probe's result is written after the SNMP probe, and the
\* Fiery probe runs only after the HTTP probe, when that probe got a
\* response and the SNMP probe did not confirm identity.
C22_ProbeOrder ==
    [][/\ device_info'.http_accessible # device_info.http_accessible => scan_pc = "snmp"
       /\ (scan_pc' = "fiery" \/ device_info'.fiery_controller # device_info.fiery_controller) =>
              /\ scan_pc = "http"
              /\ device_info.http_accessible
              /\ device_info.snmp_info = EmptyDict]_<<scan_pc, device_info>>

\* the Fiery probe has run and detected a controller
C22_Witness ==
    /\ scan_pc = "fiery"
    /\ device_info.fiery_controller
    /\ device_info.http_accessible

\* C23: a scan of an address that fails the ping still records what the
\* HTTP probe got, and returns the address as identified when its SNMP or
\* HTTP answer holds a vendor identifier.
C23_PingFailureGoesOn ==
    (scan_pc = "returned" /\ ~target.prof.ping) =>
        /\ device_info.http_accessible = DictTruthy(HttpDiscovery(target.prof.pages))
        /\ (IsKonicaMinolta(target.prof.snmp)
              \/ IsKonicaMinolta(HttpDiscovery(target.prof.pages))) => device_info.is_km_device

\* an address that failed the ping and answered SNMP as a vendor device
C23_Witness ==
    /\ scan_pc = "returned"
    /\ ~target.prof.ping
    /\ ~device_info.reachable
    /\ IsKonicaMinolta(target.prof.snmp)
    /\ device_info.is_km_device

\* C24: after a discovery run every confirmed record of the run whose
\* address Device validation accepts is registered and was returned.
C24_BatchIsolated ==
    \A k \in 1..Len(discovered_devices) :
        LET registered(info) ==
                (info.ip_address \in lastRun.targets /\ info.is_km_device
                    /\ ValidIpAddress(info.ip_address)) =>
                    /\ DeviceId(info.model, info.ip_address) \in DOMAIN devices
                    /\ DeviceId(info.model, info.ip_address) \in lastRun.returned
        IN registered(discovered_devices[k])

(***************************************************************************)
(* Device-type inference from a model string                               *)
(***************************************************************************)
\* the model strings handed to _determine_device_type: every spelling of a
\* supported model, with and without its suffix letter, behind several
\* beginnings and before several endings, and the absent model
ModelStrings ==
    {None} \cup
    {head \o body \o tail :
        head \in {"", "C", "c", "bizhub C", "CX-", "X"},
        body \in {"", "654e", "654E", "654", "759", "754e", "754E", "754", "2100", "300"},
        tail \in {"", " 2100", " c759", " C654e"}}

\* the call _determine_device_type(model) of _scan_device (lines 142, 150)
InferDeviceType ==
    /\ scan_pc = "model"
    /\ device_info' = [device_info EXCEPT !.device_type = DetermineDeviceType(device_info.model)]
    /\ scan_pc' = "typed"
    /\ UNCHANGED <<target, passwords_to_try, attempts,
                   regVars, asyncVars, refreshVars, callVars>>

InitInfer ==
    /\ devices = EmptyDict
    /\ discovered_devices = <<>>
    /\ runs = 0
    /\ lastRun = NoRun
    /\ scans = NoScans
    /\ target = [ip |-> "10.0.0.4"]
    /\ scan_pc = "model"
    /\ \E model \in ModelStrings :
          device_info = [NewDeviceInfo(target.ip) EXCEPT !.model = model]
    /\ passwords_to_try = <<>>
    /\ attempts = <<>>
    /\ NoRefresh
    /\ NoAsync

NextInfer == InferDeviceType

SpecInfer == InitInfer /\ [][NextInfer]_vars

\* the substring rules in their order, and the rules a model string matches
\* when letter case is ignored
TypeRules ==
    <<[part |-> "c654e", type |-> "C654e"], [part |-> "c759", type |-> "C759"],
      [part |-> "c754e", type |-> "C754e"], [part |-> "2100", type |-> "2100"]>>

RulesMatching(model) ==
    IF model = None THEN {}
    ELSE {k \in DOMAIN TypeRules : Contains(TypeRules[k].part, Lower(model))}

\* C25: the inferred type is the type of the first rule, in the order C654e,
\* C759, C754e, 2100, whose substring occurs in the model whatever the case
\* of its letters; with no such rule it is the default colour type when the
\* model starts with C and contains 654, 754 or 759, and no type otherwise,
\* also for an absent model.
C25_TypeInference ==
    scan_pc = "typed" =>
        LET inferred(model, hits) ==
                IF hits # {}
                THEN TypeRules[CHOOSE k \in hits : \A j \in hits : k <= j].type
                ELSE IF model # None /\ StartsWith(Lower(model), "c")
                        /\ \E t \in {"654", "754", "759"} : Contains(t, model)
                     THEN "C654e"
                ELSE None
        IN device_info.device_type
               = inferred(device_info.model, RulesMatching(device_info.model))

C25_Witness ==
    /\ scan_pc = "typed"
    /\ Cardinality(RulesMatching(device_info.model)) >= 2
    /\ device_info.device_type = "C654e"

(***************************************************************************)
(* Scan of an address fronted by a controller that serves one info         *)
(* document                                                                *)
(***************************************************************************)
\* the documents an info endpoint serves: well-formed XML, JSON objects,
\* plain text, and HTML or truncated payloads that begin like XML or JSON
InfoDocuments ==
    {"<fiery version=\"2.1\"><model>C759</model></fiery>",
     "<?xml version=\"1.0\"?><fiery><model>C654</model></fiery>",
     "<fiery version=\"3.0\"><name>EFI</name></fiery>",
     "{\"model\": \"C759\", \"version\": \"2.0\"}",
     "{\"version\": \"2.0\"}",
     "{}",
     "Fiery Command WorkStation version: 5.0",
     "EFI print server",
     "Welcome",
     "<html><body>Fiery version: 2.0<br></body></html>",
     "<html><head><title>EFI Fiery</title>",
     "<html><br></html>",
     "{fiery: version 3.1}",
     "{oops"}

\* a controller whose start pages hold an indicator and whose info
\* endpoint number k serves document doc
ControllerPages(k, doc) ==
    [p \in {"/", "/wsi/", INFO_ENDPOINTS[k]} |->
        IF p = INFO_ENDPOINTS[k] THEN Page(200, doc)
        ELSE IF p = "/" THEN Page(200, "Print server")
        ELSE Page(200, "Fiery Web Services")]

InitDetect ==
    /\ devices = EmptyDict
    /\ discovered_devices = <<>>
    /\ runs = 0
    /\ lastRun = NoRun
    /\ scans = NoScans
    /\ \E k \in DOMAIN INFO_ENDPOINTS, doc \in InfoDocuments :
          target = [ip |-> "10.0.0.4", document |-> doc,
                    prof |-> [ping |-> TRUE, snmp |-> EmptyDict,
                              pages |-> ControllerPages(k, doc), login |-> RejectAll]]
    /\ scan_pc = "probe"
    /\ device_info = NewDeviceInfo(target.ip)
    /\ passwords_to_try = <<>>
    /\ attempts = <<>>
    /\ NoRefresh
    /\ NoAsync

NextDetect == NextScan

SpecDetect == InitDetect /\ [][NextDetect]_vars

\* the first of XML, JSON and text, in that order, under which the document
\* yields fields; None when it yields none under any
FirstUsableKind(doc) ==
    IF XmlParse(doc).ok THEN "XML_API"
    ELSE IF JsonParse(doc).ok THEN "JSON_API"
    ELSE IF \E kw \in INFO_KEYWORDS : Contains(kw, Lower(doc)) THEN "Web_Interface"
    ELSE None

\* C26: the info document of a detected controller is read as the first of
\* XML, JSON and text under which it yields fields; a document that fails
\* to parse as one kind is still read as the following kinds.
C26_KindsTriedInOrder ==
    device_info.fiery_controller =>
        device_info.fiery_info.fiery_type = FirstUsableKind(target.document)

(***************************************************************************)
(* Discovery runs next to refreshes (specification SpecRefresh)            *)
(***************************************************************************)
\* C27: a discovery run leaves every device registered before it
\* registered, and changes no field of it but admin_password: status,
\* error_message, last_seen, toner_levels, paper_levels, type and ip_address
\* are what they were.
C27_DiscoveryWritesCredentialOnly ==
    [][runs' # runs =>
          \A id \in DOMAIN devices :
              /\ id \in DOMAIN devices'
              /\ devices'[id] =
                     [devices[id] EXCEPT !.admin_password = devices'[id].admin_password]]_vars

\* a device added without a credential was refreshed and found online, and
\* a discovery run found it and gave it the credential
C27_Witness ==
    /\ runs > 0
    /\ \E id \in DOMAIN devices :
          /\ devices[id].status = "online"
          /\ devices[id].last_seen # NoTime
          /\ devices[id].admin_password # None
          /\ \E d \in ManualDevices : d.id = id /\ d.admin_password = None
          /\ \E k \in 1..Len(discovered_devices) :
                /\ discovered_devices[k].ip_address = devices[id].ip_address
                /\ discovered_devices[k].admin_password = devices[id].admin_password

(***************************************************************************)
(* Credentials found for registered devices (specification Spec)           *)
(***************************************************************************)
\* C28: when a discovery run of any kind returns a device that is already
\* registered without a credential and the run found a credential for it,
\* the registered device holds that credential when the run has completed.
C28_FoundCredentialBackfilled ==
    [][runs' # runs =>
          \A id \in DOMAIN devices \cap lastRun'.returned :
              \A k \in 1..Len(discovered_devices') :
                  LET backfilled(info) ==
                          (/\ devices[id].admin_password = None
                           /\ info.is_km_device
                           /\ DeviceId(info.model, info.ip_address) = id
                           /\ Truthy(info.admin_password)) =>
                              devices'[id].admin_password = info.admin_password
                  IN backfilled(discovered_devices'[k])]_vars

(***************************************************************************)
(* The targets of a subnet sweep                                           *)
(***************************************************************************)
\* the prefix lengths of the networks swept
PrefixLengths == 22..30

\* the networks handed to discover_network_range
Networks ==
    {[address |-> <<10, 0, c, d>>, prefixlen |-> n] :
        c \in {0, 1, 3}, d \in {0, 4, 128, 255}, n \in PrefixLengths}

\* discover_network_range, lines 66-76: the addresses it makes a
\* _scan_device call for
SweepNetwork ==
    /\ scan_pc = "network"
    /\ LET swept(targets) ==
               lastRun' = [NoRun EXCEPT !.path = "sweep",
                                        !.targets = {targets[k] : k \in 1..Len(targets)}]
       IN swept(SweepTargets(target.network))
    /\ scan_pc' = "swept"
    /\ UNCHANGED <<devices, discovered_devices, runs, scans, target, device_info,
                   passwords_to_try, attempts, asyncVars, refreshVars, callVars>>

InitSweep ==
    /\ devices = EmptyDict
    /\ discovered_devices = <<>>
    /\ runs = 0
    /\ lastRun = NoRun
    /\ scans = NoScans
    /\ \E network \in Networks : target = [network |-> network]
    /\ scan_pc = "network"
    /\ device_info = EmptyDict
    /\ passwords_to_try = <<>>
    /\ attempts = <<>>
    /\ NoRefresh
    /\ NoAsync

NextSweep == SweepNetwork

SpecSweep == InitSweep /\ [][NextSweep]_vars

\* C29: the addresses a sweep scans are the addresses of the network but
\* its first one (the network address) and its last one (the broadcast
\* address).
C29_SweepSkipsNetworkAndBroadcast ==
    scan_pc = "swept" =>
        LET hosts(ip_range) ==
                {IpToStr(ip_range[k]) : k \in 2..(Len(ip_range) - 1)}
        IN lastRun.targets = hosts(IpRange(target.network))

(***************************************************************************)
(* Adapters for discovered devices                                         *)
(***************************************************************************)
\* _get_device_adapter(device) called for a registered device, as the
\* refresh and the connection test call it
BindAdapter ==
    \E id \in DOMAIN devices :
        /\ AdapterClass(devices[id].type) # "raise"
        /\ device_adapters' = GetDeviceAdapter(device_adapters, devices[id], clock)
        /\ UNCHANGED <<regVars, scanVars, asyncVars, tasks, batch, clock, callVars>>

InitBind ==
    /\ devices = EmptyDict
    /\ discovered_devices = <<>>
    /\ runs = 0
    /\ lastRun = NoRun
    /\ scans = NoScans
    /\ NoScan
    /\ NoRefresh
    /\ NoAsync

NextBind ==
    \/ DiscoverSpecificIps
    \/ BindAdapter

SpecBind == InitBind /\ [][NextBind]_vars

\* C30: the adapter cached for a registered device whose record the
\* RIP-controller probe confirmed is the RIP-controller adapter.
C30_ControllerDeviceBound ==
    \A k \in 1..Len(discovered_devices) :
        LET bound(id) ==
                (/\ discovered_devices[k].fiery_controller
                 /\ id \in lastRun.added
                 /\ id \in DOMAIN device_adapters) =>
                    device_adapters[id].cls = "FieryDeviceAdapter"
        IN bound(DeviceId(discovered_devices[k].model, discovered_devices[k].ip_address))

(***************************************************************************)
(* The periodic task after a failed iteration                              *)
(***************************************************************************)
\* the timer of asyncio.sleep fires and the event loop resumes the task
SpecPeriodic == SpecLifecycle /\ WF_vars(PeriodicRefreshAll)

\* C31: while stop() was not called the periodic task has not ended, and
\* after an iteration whose refresh_all_devices raised, refresh_all_devices
\* is called again (or stop() is called first).
C31_LoopSurvivesFailure ==
    /\ [](lifecycle.stop = "idle" => status_check_task.pc \notin {"finished", "cancelled"})
    /\ ((/\ status_check_task.failed_call # 0
         /\ status_check_task.failed_call = batch.call
         /\ status_check_task.pc = "sleeping"
         /\ lifecycle.stop = "idle"
         /\ clock <= MaxRefreshes)
          ~> (batch.call # status_check_task.failed_call \/ lifecycle.stop # "idle"))

\* refresh_all_devices was called again after a call of it had raised
C31_Witness ==
    /\ status_check_task.failed_call # 0
    /\ batch.call > status_check_task.failed_call
    /\ lifecycle.stop = "idle"

(***************************************************************************)
(* Termination of a scan                                                   *)
(***************************************************************************)
\* every probe and login attempt ends, so a probing call leaves; the event
\* loop resumes a call that can acquire the semaphore and the gather whose
\* calls have all returned
SpecFanoutFair ==
    SpecFanout /\ WF_vars(EnterScan) /\ WF_vars(LeaveScan) /\ WF_vars(GatherScans)

\* C32: a scan that was begun finishes, with every one of its calls
\* returned; as long as it runs, every slot of the semaphore is either free
\* or held by a call that is probing, and each call is waiting, probing or
\* has returned.
C32_ScanTerminates ==
    /\ [](fanout.state = "finished" => fanout.waiting = 0 /\ fanout.probing = 0)
    /\ [](fanout.state = "running" =>
             fanout.value + fanout.probing
                 = IF fanout.kind = "sweep" THEN SweepLimit ELSE TargetedLimit)
    /\ [][fanout.state = "running" =>
             fanout'.waiting + fanout'.probing + fanout'.done
                 = fanout.waiting + fanout.probing + fanout.done]_vars
    /\ (fanout.state = "running" ~> fanout.state = "finished")

\* a targeted scan of more addresses than the semaphore has slots finished
C32_Witness ==
    /\ fanout.kind = "targeted"
    /\ fanout.state = "finished"
    /\ fanout.done > TargetedLimit

(***************************************************************************)
(* Devices behind a controller (specification Spec)                        *)
(***************************************************************************)
\* the type of a unit whose controller reports model: the first of C759,
\* C754 and C654 the model names, C759 when it names none or is absent
ControllerUnitType(model) ==
    IF model = None THEN "C759"
    ELSE IF Contains("c759", Lower(model)) THEN "C759"
    ELSE IF Contains("c754", Lower(model)) THEN "C754e"
    ELSE IF Contains("c654", Lower(model)) THEN "C654e"
    ELSE "C759"

\* C33: a device a run registers from a record the controller probe
\* confirmed has the type of the model the controller reported, and the
\* type C759 when the controller reported none.
C33_ControllerUnitTyped ==
    \A k \in 1..Len(discovered_devices) :
        LET typed(info, id) ==
                (info.fiery_controller /\ id \in lastRun.added /\ id \in DOMAIN devices) =>
                    devices[id].type = ControllerUnitType(info.model)
        IN typed(discovered_devices[k],
                 DeviceId(discovered_devices[k].model, discovered_devices[k].ip_address))

(***************************************************************************)
(* Adapters and the devices they hold (specification SpecAdapter)          *)
(***************************************************************************)
\* C34: every cached adapter is cached under a registered id and holds the
\* Device object registered under that id, and no adapter instance is
\* cached under two ids.
C34_AdapterHoldsRegisteredDevice ==
    /\ \A id \in DOMAIN device_adapters :
          /\ id \in DOMAIN devices
          /\ device_adapters[id].current
    /\ \A i, j \in DOMAIN device_adapters :
          device_adapters[i].instance = device_adapters[j].instance => i = j

(***************************************************************************)
(* Several refresh_device_status calls for one device under way at once    *)
(* (specification SpecOverlap).  tasks maps the number of a call to the    *)
(* call; the Device is written where the code assigns its fields, between  *)
(* two awaits.                                                             *)
(***************************************************************************)
\* number of refresh calls made
MaxCalls == 3

\* call number call of refresh_device_status(id), not run yet; pc: created,
\* checking, status, done
NewCall(id, call) ==
    [id |-> id, call |-> call, pc |-> "created", adapter |-> "", is_online |-> "unchecked"]

\* a caller asks refresh_device_status(id) while other calls are under way
OverlapRefresh ==
    \E id \in DOMAIN devices :
        /\ clock <= MaxCalls
        /\ clock' = clock + 1
        /\ tasks' = [k \in DOMAIN tasks \cup {clock} |->
                        IF k = clock THEN NewCall(id, clock) ELSE tasks[k]]
        /\ UNCHANGED <<regVars, device_adapters, batch, scanVars, asyncVars, callVars>>

\* lines 99-103 of call k: get_device and _get_device_adapter
OverlapGetAdapter ==
    \E k \in DOMAIN tasks :
        /\ tasks[k].pc = "created"
        /\ device_adapters' = GetDeviceAdapter(device_adapters, devices[tasks[k].id], k)
        /\ tasks' = [tasks EXCEPT ![k].pc = "checking",
                                  ![k].adapter = device_adapters'[tasks[k].id].cls]
        /\ UNCHANGED <<regVars, batch, clock, scanVars, asyncVars, callVars>>

\* lines 106-110 and 124-127 of call k: the connectivity check answers
OverlapConnectivity ==
    \E k \in DOMAIN tasks, is_online \in BOOLEAN :
        /\ tasks[k].pc = "checking"
        /\ IF CallsGetStatus(is_online)
           THEN /\ tasks' = [tasks EXCEPT ![k].pc = "status", ![k].is_online = "yes"]
                /\ UNCHANGED devices
           ELSE /\ tasks' = [tasks EXCEPT ![k].pc = "done", ![k].is_online = "no"]
                /\ devices' = [devices EXCEPT ![tasks[k].id] = RefreshOffline(@)]
        /\ UNCHANGED <<discovered_devices, runs, lastRun, scans, device_adapters, batch, clock,
                       scanVars, asyncVars, callVars>>

\* lines 110-122 and 129-131 of call k: get_status returns or raises
OverlapGetStatus ==
    \E k \in DOMAIN tasks, answer \in StatusAnswers :
        /\ tasks[k].pc = "status"
        /\ tasks' = [tasks EXCEPT ![k].pc = "done"]
        /\ devices' =
              [devices EXCEPT ![tasks[k].id] =
                  IF answer.raises THEN RefreshError(@, answer.text)
                  ELSE RefreshOnline(@, GetStatus(tasks[k].adapter, @, answer.snmp), clock)]
        /\ UNCHANGED <<discovered_devices, runs, lastRun, scans, device_adapters, batch, clock,
                       scanVars, asyncVars, callVars>>

InitOverlap ==
    /\ devices = EmptyDict
    /\ discovered_devices = <<>>
    /\ runs = 0
    /\ lastRun = NoRun
    /\ scans = NoScans
    /\ NoScan
    /\ NoRefresh
    /\ NoAsync

NextOverlap ==
    \/ DiscoverDuringRefresh
    \/ OverlapRefresh
    \/ OverlapGetAdapter
    \/ OverlapConnectivity
    \/ OverlapGetStatus

SpecOverlap == InitOverlap /\ [][NextOverlap]_vars

\* C35: a registered device with status online has no error message and a
\* last_seen timestamp, and one with status error has an error message
\* (a value other than None), however the refresh calls for it interleave.
C35_StatusFieldsConsistent ==
    \A id \in DOMAIN devices :
        /\ devices[id].status = "online" =>
              devices[id].error_message = None /\ devices[id].last_seen # NoTime
        /\ devices[id].status = "error" => devices[id].error_message # None

\* of two calls for one device the later one has ended offline while the
\* earlier one, whose connectivity check succeeded, still awaits get_status
C35_Witness ==
    \E i, j \in DOMAIN tasks :
        /\ i < j
        /\ tasks[i].id = tasks[j].id
        /\ tasks[i].pc = "status"
        /\ tasks[j].pc = "done" /\ tasks[j].is_online = "no"
        /\ devices[tasks[i].id].last_seen # NoTime

\* C36: the step in which a refresh call ends offline or in error leaves
\* last_seen, toner_levels, paper_levels and admin_password of its device
\* as they were, and last_seen changes only in a step in which a refresh
\* call for the device ends online.
C36_FailedRefreshKeepsFields ==
    [][\A id \in DOMAIN devices :
          LET ends == \E k \in DOMAIN tasks :
                          tasks[k].id = id /\ tasks[k].pc # "done" /\ tasks'[k].pc = "done"
          IN /\ (ends /\ devices'[id].status \in {"offline", "error"}) =>
                    /\ devices'[id].last_seen = devices[id].last_seen
                    /\ devices'[id].toner_levels = devices[id].toner_levels
                    /\ devices'[id].paper_levels = devices[id].paper_levels
                    /\ devices'[id].admin_password = devices[id].admin_password
             /\ devices'[id].last_seen # devices[id].last_seen =>
                    ends /\ devices'[id].status = "online"]_vars

\* a device that a refresh found online was refreshed by a later call,
\* which found it offline, and it has the timestamp of the online refresh
C36_Witness ==
    \E id \in DOMAIN devices :
        /\ devices[id].last_seen # NoTime
        /\ devices[id].status = "offline"
        /\ \E k \in DOMAIN tasks :
              tasks[k].id = id /\ tasks[k].pc = "done" /\ tasks[k].is_online = "no"
                 /\ devices[id].last_seen < k

(***************************************************************************)
(* start() and stop() called several times (specification SpecRestart)     *)
(***************************************************************************)
\* largest number of periodic tasks nothing refers to
MaxOrphans == 2

\* 1 for a task that has not ended, 0 otherwise
Alive(task) == IF task.pc \in {"created", "sleeping", "refreshing"} THEN 1 ELSE 0

\* start() called again, lines 36-45, after an earlier start() has returned
\* or raised and between two refresh_all_devices calls: line 42 creates a
\* task and assigns it to _status_check_task, whatever that attribute
\* referred to
StartAgain ==
    \E fields \in SettingsObjects :
        /\ lifecycle.start \in {"returned", "raised"}
        /\ lifecycle.stop \in {"idle", "returned"}
        /\ batch.state # "running"
        /\ lifecycle.orphans + Alive(status_check_task) <= MaxOrphans
        /\ status_check_task' = [NoTask EXCEPT !.pc = "created"]
        /\ lifecycle' = [start |-> IF "auto_discover" \in fields THEN "discovering"
                                   ELSE "raised",
                         stop |-> "idle", at |-> "",
                         orphans |-> lifecycle.orphans + Alive(status_check_task)]
        /\ UNCHANGED <<regVars, scanVars, refreshVars, callVars, fanout>>

\* lines 64-65 in a task nothing refers to: its sleep is over and it calls
\* refresh_all_devices
OrphanRefreshAll ==
    /\ lifecycle.orphans > 0
    /\ clock <= MaxRefreshes
    /\ batch.state # "running"
    /\ status_check_task.pc # "refreshing"
    /\ lifecycle.start \notin {"discovering", "refreshing"}
    /\ BeginRefreshAll(devices)
    /\ UNCHANGED <<regVars, scanVars, device_adapters, callVars, asyncVars>>

NextRestart ==
    \/ StartManager
    \/ StartAgain
    \/ StartDiscovers
    \/ StartReturns
    \/ PeriodicStarts
    \/ PeriodicRefreshAll
    \/ PeriodicSleeps
    \/ OrphanRefreshAll
    \/ RefreshGetAdapter
    \/ RefreshConnectivity
    \/ RefreshGetStatus
    \/ GatherReturns
    \/ StopManager
    \/ PeriodicCancelled
    \/ StopReturns

SpecRestart == InitLifecycle /\ [][NextRestart]_vars

\* C37: at most one periodic task has not ended, and none when stop() has
\* returned.
C37_OnePeriodicTask ==
    /\ lifecycle.orphans + Alive(status_check_task) <= 1
    /\ lifecycle.stop = "returned" => lifecycle.orphans + Alive(status_check_task) = 0

(***************************************************************************)
(* Two discovery runs that overlap (specification SpecTwoRuns)             *)
(***************************************************************************)
\* what the two addresses answer to a run's scan
TwoRunEnvs == [Addresses -> {"silent", "c654", "httpc759"}]

\* self.discovered_devices as create_device_objects reads it (discovery.py
\* line 455) in a run whose scan assigned `assigned` to it (lines 87, 506)
\* and found `shared` there before.  The scan returns right after the
\* assignment and the caller calls create_device_objects next
\* (device_manager.py lines 267-270, 346-349) with nothing awaited in
\* between, so no other coroutine runs between the two.
SharedAtConversionStale(assigned, shared) == shared

SharedAtConversion(assigned, shared) == assigned

\* a run up to the gather its scan awaits (discovery.py lines 68-78, 491-498)
BeginRun(r, targets, env) ==
    /\ scans' = [scans EXCEPT ![r] = [IdleScan EXCEPT !.pc = "scanning",
                                                      !.targets = targets, !.env = env]]
    /\ UNCHANGED <<devices, discovered_devices, runs, lastRun, scanVars, asyncVars,
                   refreshVars, callVars>>

\* a run from the end of its gather to its return: the filter and the
\* assignment of discovered_devices (discovery.py lines 80-88, 500-507),
\* create_device_objects and the merge loop of the caller
EndRun(r, backfill) ==
    LET merged(found, new_devices, reg) ==
            /\ devices' = reg.devices
            /\ lastRun' = RunRecord(r, scans[r].targets, scans[r].env, new_devices, reg.added)
            /\ scans' = [q \in Runs |->
                            IF q = r
                            THEN [scans[r] EXCEPT !.pc = "done", !.discovered_info = found,
                                                  !.new_devices = new_devices]
                            ELSE IF scans[q].pc = "scanning"
                            THEN [scans[q] EXCEPT !.overwritten = TRUE]
                            ELSE scans[q]]
        created(found, new_devices) ==
            merged(found, new_devices,
                   MergeDevices([devices |-> devices, added |-> {}], new_devices, backfill))
        scanned(found) ==
            /\ discovered_devices' = found
            /\ created(found, NewDevices(SharedAtConversion(found, discovered_devices), <<>>))
    IN /\ runs' = runs + 1
       /\ scanned(FoundDevices(scans[r].targets, scans[r].env))
       /\ UNCHANGED <<scanVars, asyncVars, refreshVars, callVars>>

\* _auto_discover_devices, lines 262-267: up to the awaited sweep
AutoDiscoverBegins ==
    \E env \in TwoRunEnvs :
        /\ scans["auto"].pc = "idle"
        /\ BeginRun("auto", SweepList, env)

\* _auto_discover_devices, lines 267-285: from the end of the sweep
AutoDiscoverEnds ==
    /\ scans["auto"].pc = "scanning"
    /\ EndRun("auto", TRUE)

\* discover_specific_ips, lines 342-346: up to the awaited quick_scan
SpecificIpsBegins ==
    \E ip_list \in IpLists, env \in TwoRunEnvs :
        /\ scans["specific"].pc = "idle"
        /\ BeginRun("specific", ip_list, env)

\* discover_specific_ips, lines 346-360: from the end of quick_scan
SpecificIpsEnds ==
    /\ scans["specific"].pc = "scanning"
    /\ EndRun("specific", FALSE)

InitTwoRuns ==
    /\ devices = EmptyDict
    /\ discovered_devices = <<>>
    /\ runs = 0
    /\ lastRun = NoRun
    /\ scans = NoScans
    /\ NoScan
    /\ NoRefresh
    /\ NoAsync

NextTwoRuns ==
    \/ AutoDiscoverBegins
    \/ AutoDiscoverEnds
    \/ SpecificIpsBegins
    \/ SpecificIpsEnds

SpecTwoRuns == InitTwoRuns /\ [][NextTwoRuns]_vars

\* C38: a run that has returned converted exactly the records its own scan
\* returned: one Device per record, in order, with the record's address and
\* the id made of the record's model and address.
C38_RunConvertsOwnRecords ==
    \A r \in Runs :
        scans[r].pc = "done" =>
            LET own(info, made) ==
                    /\ Len(made) = Len(info)
                    /\ \A k \in 1..Len(info) :
                           /\ made[k].ip_address = info[k].ip_address
                           /\ made[k].id = DeviceId(info[k].model, info[k].ip_address)
            IN own(scans[r].discovered_info, scans[r].new_devices)

\* a run returned Devices after the other run had replaced the shared list,
\* while it was scanning, by records that differ from its own
C38_Witness ==
    \E r \in Runs, q \in Runs :
        /\ r # q
        /\ scans[r].pc = "done"
        /\ scans[q].pc = "done"
        /\ scans[r].overwritten
        /\ scans[r].new_devices # <<>>
        /\ scans[q].discovered_info # <<>>
        /\ scans[q].discovered_info # scans[r].discovered_info

(***************************************************************************)
(* The type of a discovered device                                         *)
(***************************************************************************)
\* C39: every device a discovery run registered has one of the four device
\* types, and _get_device_adapter has an adapter class for it.
C39_DiscoveredTypeSupported ==
    \A id \in DOMAIN devices :
        /\ devices[id].type \in DeviceType
        /\ AdapterClass(devices[id].type) # "raise"

\* the latest run registered a device for a record that carries no type
C39_Witness ==
    \E k \in 1..Len(discovered_devices) :
        LET untyped(info, id) ==
                /\ info.device_type = None
                /\ id \in lastRun.added
                /\ id \in DOMAIN devices
                /\ devices[id].type = "C654e"
        IN untyped(discovered_devices[k],
                   DeviceId(discovered_devices[k].model, discovered_devices[k].ip_address))

====
